---------------------------- MODULE Spec2Model ----------------------------
(***************************************************************************)
(* Bubble-extraction pipeline of the comic reader (scripts/get-context):   *)
(* region detection post-processing (spatial deduplication, container      *)
(* filter), region transcription post-processing (validity filter, text    *)
(* deduplication) and context classification.                              *)
(*                                                                         *)
(* Conventions of the model:                                               *)
(*   - a box is a record [x, y, width, height] of integers (pixels);       *)
(*   - a confidence is an integer number of tenths (9 stands for 0.9);     *)
(*   - a ratio (IoU, tolerance) is never divided out: a / b > 0.1 is       *)
(*     checked as 10 * a > b, and a / b < 0.05 as 100 * a < 5 * b;         *)
(*   - a text is a sequence of one-character strings, <<"H","i","!">>;     *)
(*   - the stages and the run are state machines over disjoint variables;  *)
(*     each has its own specification and leaves the others' variables at  *)
(*     rest.                                                               *)
(***************************************************************************)
EXTENDS Integers, Sequences, FiniteSets, TLC

VARIABLES
  \* ---- detection stage (roboflow.ts, detectTextRegions)
  detPc,                    \* "idle" | "convert" | "dedup" | "filter" | "done"
  useSpatialDedup,          \* options.useSpatialDedup (--use-spatial-dedup)
  rawPredictions,           \* parseRoboflowResponse(...): center-based boxes
  centeredPredictions,      \* convertCenterToTopLeft(rawPredictions)
  sdUnique,                 \* spatialDeduplication: the local `unique`
  sdIdx,                    \* spatialDeduplication: predictions consumed so far
  deduplicatedPredictions,  \* result of spatialDeduplication
  filteredPredictions,      \* result of filterContainerBoxes
  \* ---- transcription post-processing (ocr.ts, runOCR)
  ocrPc,                    \* "idle" | "transcribe" | "filter" | "dedup" | "done"
  ocrRegions,               \* runOCR's `predictions`: the detections to transcribe
  transcripts,              \* the transcription capability's answer per detection
  ocrCalls,                 \* the transcription calls sent so far, a set: region
                            \* index, crop sent
  withOCR,                  \* regions with their transcribed text
  validOCR,                 \* withOCR.filter(isValidText)
  tdUnique,                 \* deduplicateOCRPredictionsByText: the local `unique`
  tdIdx,                    \* deduplicateOCRPredictionsByText: predictions consumed
  deduplicatedOCR,          \* result of deduplicateOCRPredictionsByText
  completionOrder,          \* the transcription calls that have returned, in the
                            \* order they returned
  promiseValues,            \* what the returned calls' promises resolved with,
                            \* by position in predictions.map(...)
  \* ---- context classification (gemini-context.ts, analyzeContext)
  ctxPc,                    \* "idle" | "loop" | "done"
  pageName,                 \* analyzeContext's pageName
  skipGemini,               \* options.skipGemini (--skip-gemini)
  ocrPredictions,           \* the regions handed to analyzeContext
  ctxI,                     \* loop index i (0-based): regions handled so far
  bubbles,                  \* the page's Bubble list
  skipped,                  \* the page's skipped list
  uniqueCharacters,         \* the roster (a Set), in insertion order
  calls,                    \* the classifier calls answered so far: the text
                            \* and roster sent, the capability's answer; one
                            \* more than ctxI while the timer of line 87 runs
  \* ---- the run (generate-manifest.ts, main of get-context)
  runPc,                    \* "idle" | "start" | "list" | "running" | "exited0" |
                            \* "exited1"
  options,                  \* parseArgs(): page, startAt, useSpatialDedup, skipGemini
  cacheFile,                \* CACHE_FILE on disk: present or not, its pages
  loaded,                   \* main's cache as loaded, page filename -> Bubbles
  pageFiles,                \* getPageFiles(...): the selected pages, sorted
  tasks,                    \* the page tasks handed to LIMIT, one per page file
  \* ---- the geometry kernel called on its own (box-math.ts)
  kernelPc,                 \* "idle" | "called" | "done"
  kernelBox1,               \* first argument (innerBox of isInside)
  kernelBox2,               \* second argument (outerBox of isInside)
  kernelIoU,                \* calculateIoU(box1, box2), as num / den
  kernelInside              \* isInside(box1, box2)

detVars == <<detPc, useSpatialDedup, rawPredictions, centeredPredictions,
             sdUnique, sdIdx, deduplicatedPredictions, filteredPredictions>>
ocrVars == <<ocrPc, ocrRegions, transcripts, ocrCalls, withOCR, validOCR, tdUnique,
             tdIdx, deduplicatedOCR, completionOrder, promiseValues>>
ctxVars == <<ctxPc, pageName, skipGemini, ocrPredictions, ctxI, bubbles, skipped,
             uniqueCharacters, calls>>
runVars == <<runPc, options, cacheFile, loaded, pageFiles, tasks>>
kernelVars == <<kernelPc, kernelBox1, kernelBox2, kernelIoU, kernelInside>>
vars == <<detVars, ocrVars, ctxVars, runVars, kernelVars>>

----------------------------------------------------------------------------
(* Generic helpers *)

Max(a, b) == IF a >= b THEN a ELSE b
Min(a, b) == IF a <= b THEN a ELSE b
Abs(a) == IF a >= 0 THEN a ELSE 0 - a

\* All sequences over S of length 0..n.
SeqsUpTo(S, n) == UNION {[1..k -> S] : k \in 0..n}

\* The subsequence of s at the indices in keep, in order.
RECURSIVE SubSeqAt(_, _, _)
SubSeqAt(s, keep, k) ==
  IF k > Len(s) THEN <<>>
  ELSE IF k \in keep THEN <<s[k]>> \o SubSeqAt(s, keep, k + 1)
  ELSE SubSeqAt(s, keep, k + 1)

----------------------------------------------------------------------------
(* Geometry kernel: box-math.ts *)

BoxOf(p) == [x |-> p.x, y |-> p.y, width |-> p.width, height |-> p.height]
Area(b) == b.width * b.height

\* A slip calculateIoU could have: the intersection counted twice in the union.
calculateIoU_SumOfAreas(box1, box2) ==
  LET x1 == Max(box1.x, box2.x)
      y1 == Max(box1.y, box2.y)
      x2 == Min(box1.x + box1.width, box2.x + box2.width)
      y2 == Min(box1.y + box1.height, box2.y + box2.height)
      intersection == (x2 - x1) * (y2 - y1)
      union == Area(box1) + Area(box2)
  IN  IF x2 < x1 \/ y2 < y1 THEN [num |-> 0, den |-> 1]
      ELSE IF union > 0 THEN [num |-> intersection, den |-> union]
      ELSE [num |-> 0, den |-> 1]

\* calculateIoU, as the pair intersection / union (0 / 1 where the code
\* returns the number 0).
calculateIoU(box1, box2) ==
  LET x1 == Max(box1.x, box2.x)
      y1 == Max(box1.y, box2.y)
      x2 == Min(box1.x + box1.width, box2.x + box2.width)
      y2 == Min(box1.y + box1.height, box2.y + box2.height)
      intersection == (x2 - x1) * (y2 - y1)
      union == Area(box1) + Area(box2) - intersection
  IN  IF x2 < x1 \/ y2 < y1 THEN [num |-> 0, den |-> 1]
      ELSE IF union > 0 THEN [num |-> intersection, den |-> union]
      ELSE [num |-> 0, den |-> 1]

\* diff / Math.max(d1, d2) < tolerance, tolerance in hundredths.  A zero
\* divisor gives Infinity or NaN in the code, and the comparison is false.
RatioBelow(diff, d1, d2, tolerance) ==
  /\ Max(d1, d2) > 0
  /\ 100 * Abs(diff) < tolerance * Max(d1, d2)

boxesAreSimilar(box1, box2, tolerance) ==
  /\ RatioBelow(box1.x - box2.x, box1.width, box2.width, tolerance)
  /\ RatioBelow(box1.y - box2.y, box1.height, box2.height, tolerance)
  /\ RatioBelow(box1.width - box2.width, box1.width, box2.width, tolerance)
  /\ RatioBelow(box1.height - box2.height, box1.height, box2.height, tolerance)

\* 10% overlap threshold: calculateIoU(box1, box2) > 0.1
OverlapThresholdTenths == 1
boxesOverlap(box1, box2) ==
  LET iou == calculateIoU(box1, box2)
  IN  10 * iou.num > OverlapThresholdTenths * iou.den

isInside(innerBox, outerBox) ==
  LET innerRight == innerBox.x + innerBox.width
      innerBottom == innerBox.y + innerBox.height
      outerRight == outerBox.x + outerBox.width
      outerBottom == outerBox.y + outerBox.height
  IN  /\ innerBox.x >= outerBox.x
      /\ innerBox.y >= outerBox.y
      /\ innerRight <= outerRight
      /\ innerBottom <= outerBottom

----------------------------------------------------------------------------
(* Detection stage: roboflow.ts *)

\* SPATIAL_TOLERANCE = 0.05, in hundredths.
SPATIAL_TOLERANCE == 5

\* pred.confidence ?? 0.5, in tenths.
DefaultConfidence == 5

\* convertCenterToTopLeft: one prediction.  The detector's x, y are the box's
\* centre; widths and heights of the model are even, so width / 2 is exact.
convertOne(pred) ==
  [x |-> Max(0, pred.x - pred.width \div 2),
   y |-> Max(0, pred.y - pred.height \div 2),
   width |-> pred.width,
   height |-> pred.height,
   confidence |-> IF "confidence" \in DOMAIN pred THEN pred.confidence
                  ELSE DefaultConfidence]

convertCenterToTopLeft(predictions) ==
  [k \in 1..Len(predictions) |-> convertOne(predictions[k])]

\* unique.find((existing) => boxesAreSimilar(pred, existing, tolerance)), as
\* the index of the element found, 0 when there is none.
FindSimilar(unique, pred, tolerance) ==
  LET hits == {k \in 1..Len(unique) : boxesAreSimilar(pred, unique[k], tolerance)}
  IN  IF hits = {} THEN 0 ELSE CHOOSE k \in hits : \A j \in hits : k <= j

\* A slip spatialDeduplication could have: >= for >, so that a tie replaces.
spatialDedupStep_TieReplaces(unique, pred, tolerance) ==
  LET duplicate == FindSimilar(unique, pred, tolerance)
  IN  IF duplicate = 0 THEN Append(unique, pred)
      ELSE IF pred.confidence >= unique[duplicate].confidence
        THEN [unique EXCEPT ![duplicate] = pred]
      ELSE unique

\* One iteration of spatialDeduplication's loop.
spatialDedupStep(unique, pred, tolerance) ==
  LET duplicate == FindSimilar(unique, pred, tolerance)
  IN  IF duplicate = 0 THEN Append(unique, pred)
      ELSE IF pred.confidence > unique[duplicate].confidence
        THEN [unique EXCEPT ![duplicate] = pred]
      ELSE unique

\* spatialDeduplication's loop over predictions[from..], starting from unique.
RECURSIVE spatialDedupLoop(_, _, _, _)
spatialDedupLoop(unique, predictions, from, tolerance) ==
  IF from > Len(predictions) THEN unique
  ELSE spatialDedupLoop(spatialDedupStep(unique, predictions[from], tolerance),
                        predictions, from + 1, tolerance)

\* spatialDeduplication(predictions, tolerance, shouldSkip); a missing
\* tolerance is 0.
spatialDedupSkipped(tolerance, shouldSkip) == shouldSkip \/ tolerance = 0

spatialDeduplication(predictions, tolerance, shouldSkip) ==
  IF spatialDedupSkipped(tolerance, shouldSkip) THEN predictions
  ELSE spatialDedupLoop(<<>>, predictions, 1, tolerance)

\* A slip filterContainerBoxes could have: the box is compared to itself too.
hasChild_SelfIncluded(predictions, big) ==
  \E small \in 1..Len(predictions) :
    isInside(predictions[small], predictions[big])

\* filterContainerBoxes: a prediction is a container when another element of
\* the array (bigBox !== smallBox: another index) lies inside it.
hasChild(predictions, big) ==
  \E small \in 1..Len(predictions) :
    small # big /\ isInside(predictions[small], predictions[big])

\* A slip filterContainerBoxes could have: the test the wrong way round.
filterContainerBoxes_KeepsContainers(predictions) ==
  SubSeqAt(predictions, {k \in 1..Len(predictions) : hasChild(predictions, k)}, 1)

filterContainerBoxes(predictions) ==
  SubSeqAt(predictions, {k \in 1..Len(predictions) : ~hasChild(predictions, k)}, 1)

\* ---- inputs of the detection stage

MaxDetections == 3

\* Centre-based boxes as the detector returns them: a large box, the same box
\* shifted by 4% and by 8% of its width, two small boxes inside all three, and
\* a box whose top-left corner is clamped to the page's origin.
RawBoxes ==
  { [x |-> 150, y |-> 150, width |-> 100, height |-> 100],
    [x |-> 154, y |-> 150, width |-> 100, height |-> 100],
    [x |-> 158, y |-> 150, width |-> 100, height |-> 100],
    [x |-> 130, y |-> 130, width |-> 40, height |-> 40],
    [x |-> 170, y |-> 170, width |-> 40, height |-> 40],
    [x |-> 10, y |-> 10, width |-> 40, height |-> 40] }

RawConfidences == {4, 9}

RawDetections ==
  { [x |-> b.x, y |-> b.y, width |-> b.width, height |-> b.height,
     confidence |-> c] : b \in RawBoxes, c \in RawConfidences }
  \cup { [x |-> 150, y |-> 150, width |-> 100, height |-> 100] }

\* ---- the stage as a state machine

OcrIdle ==
  /\ ocrPc = "idle"
  /\ ocrRegions = <<>>
  /\ transcripts = <<>>
  /\ ocrCalls = {}
  /\ withOCR = <<>>
  /\ validOCR = <<>>
  /\ tdUnique = <<>>
  /\ tdIdx = 0
  /\ deduplicatedOCR = <<>>
  /\ completionOrder = <<>>
  /\ promiseValues = <<>>

CtxIdle ==
  /\ ctxPc = "idle"
  /\ pageName = ""
  /\ skipGemini = FALSE
  /\ ocrPredictions = <<>>
  /\ ctxI = 0
  /\ bubbles = <<>>
  /\ skipped = <<>>
  /\ uniqueCharacters = <<>>
  /\ calls = <<>>

RunIdle ==
  /\ runPc = "idle"
  /\ options = <<>>
  /\ cacheFile = <<>>
  /\ loaded = <<>>
  /\ pageFiles = <<>>
  /\ tasks = <<>>

KernelIdle ==
  /\ kernelPc = "idle"
  /\ kernelBox1 = <<>>
  /\ kernelBox2 = <<>>
  /\ kernelIoU = <<>>
  /\ kernelInside = FALSE

DetIdle ==
  /\ detPc = "idle"
  /\ useSpatialDedup = FALSE
  /\ rawPredictions = <<>>
  /\ centeredPredictions = <<>>
  /\ sdUnique = <<>>
  /\ sdIdx = 0
  /\ deduplicatedPredictions = <<>>
  /\ filteredPredictions = <<>>

\* detectTextRegions, lines 65-66: the response is parsed and converted.
\* spatialDeduplication returns its input at once when skipped.
DetConvert ==
  /\ detPc = "convert"
  /\ centeredPredictions' = convertCenterToTopLeft(rawPredictions)
  /\ IF spatialDedupSkipped(SPATIAL_TOLERANCE, ~useSpatialDedup)
       THEN /\ deduplicatedPredictions' = centeredPredictions'
            /\ detPc' = "filter"
       ELSE /\ deduplicatedPredictions' = <<>>
            /\ detPc' = "dedup"
  /\ sdUnique' = <<>>
  /\ sdIdx' = 0
  /\ UNCHANGED <<useSpatialDedup, rawPredictions, filteredPredictions>>
  /\ UNCHANGED <<ocrVars, ctxVars, runVars, kernelVars>>

\* spatialDeduplication: one iteration of `for (const pred of predictions)`.
DetSpatialDedupStep ==
  /\ detPc = "dedup"
  /\ sdIdx < Len(centeredPredictions)
  /\ sdUnique' = spatialDedupStep(sdUnique, centeredPredictions[sdIdx + 1],
                                  SPATIAL_TOLERANCE)
  /\ sdIdx' = sdIdx + 1
  /\ UNCHANGED <<detPc, useSpatialDedup, rawPredictions, centeredPredictions,
                 deduplicatedPredictions, filteredPredictions>>
  /\ UNCHANGED <<ocrVars, ctxVars, runVars, kernelVars>>

\* spatialDeduplication: the loop is over, `return unique`.
DetSpatialDedupReturn ==
  /\ detPc = "dedup"
  /\ sdIdx = Len(centeredPredictions)
  /\ deduplicatedPredictions' = sdUnique
  /\ detPc' = "filter"
  /\ UNCHANGED <<useSpatialDedup, rawPredictions, centeredPredictions, sdUnique,
                 sdIdx, filteredPredictions>>
  /\ UNCHANGED <<ocrVars, ctxVars, runVars, kernelVars>>

\* detectTextRegions, line 72.
DetFilterContainers ==
  /\ detPc = "filter"
  /\ filteredPredictions' = filterContainerBoxes(deduplicatedPredictions)
  /\ detPc' = "done"
  /\ UNCHANGED <<useSpatialDedup, rawPredictions, centeredPredictions, sdUnique,
                 sdIdx, deduplicatedPredictions>>
  /\ UNCHANGED <<ocrVars, ctxVars, runVars, kernelVars>>


\* The detector has answered with up to MaxDetections predictions; the run
\* was started with or without --use-spatial-dedup.
DetInit ==
  /\ detPc = "convert"
  /\ useSpatialDedup \in BOOLEAN
  /\ rawPredictions \in SeqsUpTo(RawDetections, MaxDetections)
  /\ centeredPredictions = <<>>
  /\ sdUnique = <<>>
  /\ sdIdx = 0
  /\ deduplicatedPredictions = <<>>
  /\ filteredPredictions = <<>>
  /\ OcrIdle
  /\ CtxIdle
  /\ RunIdle
  /\ KernelIdle

DetNext ==
  \/ DetConvert
  \/ DetSpatialDedupStep
  \/ DetSpatialDedupReturn
  \/ DetFilterContainers

DetSpec == DetInit /\ [][DetNext]_vars

----------------------------------------------------------------------------
(* Transcription post-processing: ocr.ts *)

\* ---- texts: sequences of one-character strings

LowerCase == <<"a", "b", "c", "d", "e", "f", "g", "h", "i", "j", "k", "l", "m",
               "n", "o", "p", "q", "r", "s", "t", "u", "v", "w", "x", "y", "z">>
UpperCase == <<"A", "B", "C", "D", "E", "F", "G", "H", "I", "J", "K", "L", "M",
               "N", "O", "P", "Q", "R", "S", "T", "U", "V", "W", "X", "Y", "Z">>
Digits == {"0", "1", "2", "3", "4", "5", "6", "7", "8", "9"}

\* \s of the model's alphabet.
IsSpace(c) == c = " "

\* \w: [A-Za-z0-9_]
IsWordChar(c) ==
  \/ \E k \in 1..Len(LowerCase) : c = LowerCase[k] \/ c = UpperCase[k]
  \/ c \in Digits
  \/ c = "_"

\* String.prototype.toUpperCase, one character.
UpperChar(c) ==
  IF \E k \in 1..Len(LowerCase) : c = LowerCase[k]
    THEN UpperCase[CHOOSE k \in 1..Len(LowerCase) : c = LowerCase[k]]
    ELSE c

toUpperCase(s) == [k \in 1..Len(s) |-> UpperChar(s[k])]

\* String.prototype.trim
trim(s) ==
  LET solid == {k \in 1..Len(s) : ~IsSpace(s[k])}
  IN  IF solid = {} THEN <<>>
      ELSE SubSeq(s, CHOOSE k \in solid : \A j \in solid : k <= j,
                     CHOOSE k \in solid : \A j \in solid : k >= j)

\* s.replace(/\s+/g, " "): every run of whitespace becomes one space.
RECURSIVE collapseWhitespace(_)
collapseWhitespace(s) ==
  IF Len(s) = 0 THEN <<>>
  ELSE IF IsSpace(s[1])
    THEN IF Len(s) > 1 /\ IsSpace(s[2]) THEN collapseWhitespace(Tail(s))
         ELSE <<" ">> \o collapseWhitespace(Tail(s))
  ELSE <<s[1]>> \o collapseWhitespace(Tail(s))

\* s.replace(/[^\w]/g, "")
stripNonWord(s) == SelectSeq(s, IsWordChar)

\* String.prototype.includes
includes(s, part) ==
  \E k \in 0..(Len(s) - Len(part)) : SubSeq(s, k + 1, k + Len(part)) = part

\* ---- image-crop.ts

\* A slip clampBoxToBounds could have: no minimum of one pixel.
clampBoxToBounds_NoMinimum(box, maxWidth, maxHeight) ==
  LET extractLeft == Min(box.x, maxWidth - 1)
      extractTop == Min(box.y, maxHeight - 1)
  IN  [x |-> Max(0, extractLeft),
       y |-> Max(0, extractTop),
       width |-> Min(box.width, maxWidth - extractLeft),
       height |-> Min(box.height, maxHeight - extractTop)]

\* clampBoxToBounds (Math.floor leaves the model's integers as they are).
clampBoxToBounds(box, maxWidth, maxHeight) ==
  LET extractLeft == Min(box.x, maxWidth - 1)
      extractTop == Min(box.y, maxHeight - 1)
      extractWidth == Min(box.width, maxWidth - extractLeft)
      extractHeight == Min(box.height, maxHeight - extractTop)
  IN  [x |-> Max(0, extractLeft),
       y |-> Max(0, extractTop),
       width |-> Max(1, extractWidth),
       height |-> Max(1, extractHeight)]

\* cropImage: the area handed to sharp's extract, for an image of the given
\* metadata.
cropImage(image, box) == clampBoxToBounds(box, image.width, image.height)

\* A slip runOCRGemini could have: a failed call answered with a marker text.
runOCRGemini_ErrorText(answer) ==
  IF ~answer.ok THEN <<"E", "R", "R">>
  ELSE IF Len(answer.text) = 0 THEN <<>>
  ELSE trim(collapseWhitespace(trim(answer.text)))

\* runOCRGemini: what becomes of the capability's answer.  A rejected call
\* and an answer without text both give "".  The model's alphabet has no line
\* break, so that replace(/\n\s*\n/g, "\n") finds nothing to replace after
\* the whitespace runs are collapsed, in the code as in the model.
runOCRGemini(answer) ==
  IF ~answer.ok THEN <<>>
  ELSE IF Len(answer.text) = 0 THEN <<>>
  ELSE trim(collapseWhitespace(trim(answer.text)))

\* A slip isValidText could have: no allow-list for "I" and "A".
isValidText_NoAllowList(text) == Len(trim(text)) > 1

\* isValidText
isValidText(text) ==
  LET trimmed == trim(text)
  IN  IF Len(trimmed) = 0 THEN FALSE
      ELSE IF Len(trimmed) = 1 /\ trimmed \notin {<<"I">>, <<"A">>} THEN FALSE
      ELSE TRUE

\* textsAreSimilar
normalize(s) == stripNonWord(toUpperCase(trim(s)))

textsAreSimilar(text1, text2) ==
  LET n1 == normalize(text1)
      n2 == normalize(text2)
  IN  IF n1 = n2 THEN TRUE
      ELSE IF Len(n1) > 0 /\ Len(n2) > 0
        THEN includes(n1, n2) \/ includes(n2, n1)
      ELSE FALSE

\* A slip deduplicateOCRPredictionsByText could have: || for &&.
FindTextDuplicate_Either(unique, pred) ==
  LET hits == {k \in 1..Len(unique) :
                 \/ boxesOverlap(pred, unique[k])
                 \/ textsAreSimilar(pred.ocr_text, unique[k].ocr_text)}
  IN  IF hits = {} THEN 0 ELSE CHOOSE k \in hits : \A j \in hits : k <= j

\* unique.find(...) of deduplicateOCRPredictionsByText, as the index of the
\* element found, 0 when there is none.
FindTextDuplicate(unique, pred) ==
  LET hits == {k \in 1..Len(unique) :
                 /\ boxesOverlap(pred, unique[k])
                 /\ textsAreSimilar(pred.ocr_text, unique[k].ocr_text)}
  IN  IF hits = {} THEN 0 ELSE CHOOSE k \in hits : \A j \in hits : k <= j

\* One iteration of deduplicateOCRPredictionsByText's loop.
textDedupStep(unique, pred) ==
  LET duplicate == FindTextDuplicate(unique, pred)
  IN  IF duplicate = 0 THEN Append(unique, pred)
      ELSE LET predArea == pred.width * pred.height
               existingArea == unique[duplicate].width * unique[duplicate].height
           IN  IF \/ pred.confidence > unique[duplicate].confidence
                  \/ predArea > existingArea
                 THEN [unique EXCEPT ![duplicate] = pred]
               ELSE unique

RECURSIVE textDedupLoop(_, _, _)
textDedupLoop(unique, predictions, from) ==
  IF from > Len(predictions) THEN unique
  ELSE textDedupLoop(textDedupStep(unique, predictions[from]), predictions, from + 1)

deduplicateOCRPredictionsByText(predictions) == textDedupLoop(<<>>, predictions, 1)

\* runOCR, lines 25-33: { index, ...pred, ocr_text } per detection, in the
\* detections' order.
transcribeAll(predictions, answers) ==
  [k \in 1..Len(predictions) |->
     [index |-> k - 1,
      x |-> predictions[k].x, y |-> predictions[k].y,
      width |-> predictions[k].width, height |-> predictions[k].height,
      confidence |-> predictions[k].confidence,
      ocr_text |-> runOCRGemini(answers[k])]]

\* runOCR, lines 26-32: the value the closure of one detection returns once
\* its transcription call has come back.
transcribeOne(pred, index, answer) ==
  [index |-> index,
   x |-> pred.x, y |-> pred.y, width |-> pred.width, height |-> pred.height,
   confidence |-> pred.confidence,
   ocr_text |-> runOCRGemini(answer)]

\* A slip runOCR could have: the values collected as the calls come back.
promiseAll_InCompletionOrder(values, order) ==
  [j \in 1..Len(order) |-> values[order[j]]]

\* Promise.all: the values of the promises, in the order of the promises,
\* whatever order they settled in.
promiseAll(values, order) ==
  [j \in 1..Len(order) |-> values[j]]

\* The capability call of runOCR for the k-th detection: runOCRGemini crops
\* the detection's box and sends the crop (it has no loop around
\* generateContent).
transcriptionCall(image, predictions, k) ==
  [index |-> k - 1, crop |-> cropImage(image, BoxOf(predictions[k]))]

\* The calls of runOCR for a page: one per detection.
transcriptionCalls(image, predictions) ==
  {transcriptionCall(image, predictions, k) : k \in 1..Len(predictions)}

filterValid(regions) ==
  SubSeqAt(regions, {k \in 1..Len(regions) : isValidText(regions[k].ocr_text)}, 1)

\* ---- inputs of the transcription stage

MaxRegions == 3

\* Three boxes in a row: the middle one overlaps each outer one with IoU 0.4,
\* the outer ones overlap each other with IoU exactly 0.1; areas 22, 20, 22.
LeftBox == [x |-> 0, y |-> 0, width |-> 11, height |-> 2]
MiddleBox == [x |-> 5, y |-> 0, width |-> 10, height |-> 2]
RightBox == [x |-> 9, y |-> 0, width |-> 11, height |-> 2]

\* The page image is 20 by 2 pixels: the three boxes lie within it.  A box
\* without width, and a box that lies wholly beyond the right edge.
PageImage == [width |-> 20, height |-> 2]
ZeroWidthBox == [x |-> 3, y |-> 0, width |-> 0, height |-> 2]
OutsideBox == [x |-> 25, y |-> 0, width |-> 4, height |-> 2]

OcrConfidences == {4, 9}

LongTexts ==
  { <<"H", "E", "L", "P", "!">>, <<"h", "e">>, <<"B", "O", "O", "M">> }

\* Answers that are short, blank or all punctuation, a rejected call, and one
\* ordinary answer.
EdgeAnswers ==
  { [ok |-> FALSE],
    [ok |-> TRUE, text |-> <<" ">>],
    [ok |-> TRUE, text |-> <<"x">>],
    [ok |-> TRUE, text |-> <<"I">>],
    [ok |-> TRUE, text |-> <<" ", "A", " ">>],
    [ok |-> TRUE, text |-> <<"?", "!">>],
    [ok |-> TRUE, text |-> <<"H", "E", "L", "P", "!">>] }

\* A detection together with the answer the capability gives for it: the left
\* and middle boxes with either confidence and an ordinary text, the right box
\* with the edge answers, the two degenerate boxes with one answer each.
OcrCases ==
  { [box |-> b, confidence |-> c, answer |-> [ok |-> TRUE, text |-> t]] :
      b \in {LeftBox, MiddleBox}, c \in OcrConfidences, t \in LongTexts }
  \cup
  { [box |-> RightBox, confidence |-> 9, answer |-> a] : a \in EdgeAnswers }
  \cup
  { [box |-> ZeroWidthBox, confidence |-> 9,
     answer |-> [ok |-> TRUE, text |-> <<"H", "E", "L", "P", "!">>]],
    [box |-> OutsideBox, confidence |-> 9, answer |-> [ok |-> FALSE]] }

\* ---- the stage as a state machine

Issued == {c.index + 1 : c \in ocrCalls}
Returned == {completionOrder[j] : j \in 1..Len(completionOrder)}

\* runOCRGemini, lines 78-94: the closure of detection k, which predictions.map
\* started, has its crop (and has saved it) and sends it to the capability.
\* The crops are made off the event loop, so the calls go out one by one in
\* any order.
OcrCallIssued(k) ==
  /\ ocrPc = "transcribe"
  /\ k \in 1..Len(ocrRegions)
  /\ k \notin Issued
  /\ ocrCalls' = ocrCalls \cup {transcriptionCall(PageImage, ocrRegions, k)}
  /\ UNCHANGED <<ocrPc, ocrRegions, transcripts, withOCR, validOCR, tdUnique, tdIdx,
                 deduplicatedOCR, completionOrder, promiseValues>>
  /\ UNCHANGED <<detVars, ctxVars, runVars, kernelVars>>

\* runOCR, lines 26-32: one of the calls in flight comes back, and the closure
\* that made it returns.
OcrCallReturns(k) ==
  /\ ocrPc = "transcribe"
  /\ k \in Issued
  /\ k \notin Returned
  /\ completionOrder' = Append(completionOrder, k)
  /\ promiseValues' =
       [j \in Returned \cup {k} |->
          IF j = k THEN transcribeOne(ocrRegions[k], k - 1, transcripts[k])
          ELSE promiseValues[j]]
  /\ UNCHANGED <<ocrPc, ocrRegions, transcripts, ocrCalls, withOCR, validOCR,
                 tdUnique, tdIdx, deduplicatedOCR>>
  /\ UNCHANGED <<detVars, ctxVars, runVars, kernelVars>>

\* runOCR, line 25: every call has come back, Promise.all resolves.
OcrAllSettled ==
  /\ ocrPc = "transcribe"
  /\ Returned = 1..Len(ocrRegions)
  /\ withOCR' = promiseAll(promiseValues, completionOrder)
  /\ ocrPc' = "filter"
  /\ UNCHANGED <<ocrRegions, transcripts, ocrCalls, validOCR, tdUnique, tdIdx,
                 deduplicatedOCR, completionOrder, promiseValues>>
  /\ UNCHANGED <<detVars, ctxVars, runVars, kernelVars>>

\* runOCR, line 47.
OcrFilterValid ==
  /\ ocrPc = "filter"
  /\ validOCR' = filterValid(withOCR)
  /\ tdUnique' = <<>>
  /\ tdIdx' = 0
  /\ ocrPc' = "dedup"
  /\ UNCHANGED <<ocrRegions, transcripts, ocrCalls, withOCR, deduplicatedOCR>>
  /\ UNCHANGED <<completionOrder, promiseValues>>
  /\ UNCHANGED <<detVars, ctxVars, runVars, kernelVars>>

\* deduplicateOCRPredictionsByText: one iteration of the loop.
OcrTextDedupStep ==
  /\ ocrPc = "dedup"
  /\ tdIdx < Len(validOCR)
  /\ tdUnique' = textDedupStep(tdUnique, validOCR[tdIdx + 1])
  /\ tdIdx' = tdIdx + 1
  /\ UNCHANGED <<ocrPc, ocrRegions, transcripts, ocrCalls, withOCR, validOCR,
                 deduplicatedOCR>>
  /\ UNCHANGED <<completionOrder, promiseValues>>
  /\ UNCHANGED <<detVars, ctxVars, runVars, kernelVars>>

\* deduplicateOCRPredictionsByText: `return unique`; runOCR returns it.
OcrTextDedupReturn ==
  /\ ocrPc = "dedup"
  /\ tdIdx = Len(validOCR)
  /\ deduplicatedOCR' = tdUnique
  /\ ocrPc' = "done"
  /\ UNCHANGED <<ocrRegions, transcripts, ocrCalls, withOCR, validOCR, tdUnique,
                 tdIdx>>
  /\ UNCHANGED <<completionOrder, promiseValues>>
  /\ UNCHANGED <<detVars, ctxVars, runVars, kernelVars>>

\* runOCR is called with up to MaxRegions detections; the capability's answers
\* are fixed with them.
OcrInit ==
  /\ \E cases \in SeqsUpTo(OcrCases, MaxRegions) :
       /\ ocrRegions = [k \in 1..Len(cases) |->
                          [x |-> cases[k].box.x, y |-> cases[k].box.y,
                           width |-> cases[k].box.width,
                           height |-> cases[k].box.height,
                           confidence |-> cases[k].confidence]]
       /\ transcripts = [k \in 1..Len(cases) |-> cases[k].answer]
  /\ ocrPc = "transcribe"
  /\ ocrCalls = {}
  /\ withOCR = <<>>
  /\ validOCR = <<>>
  /\ tdUnique = <<>>
  /\ tdIdx = 0
  /\ deduplicatedOCR = <<>>
  /\ completionOrder = <<>>
  /\ promiseValues = <<>>
  /\ DetIdle
  /\ CtxIdle
  /\ RunIdle
  /\ KernelIdle

OcrNext ==
  \/ \E k \in 1..Len(ocrRegions) : OcrCallIssued(k)
  \/ \E k \in 1..Len(ocrRegions) : OcrCallReturns(k)
  \/ OcrAllSettled
  \/ OcrFilterValid
  \/ OcrTextDedupStep
  \/ OcrTextDedupReturn

OcrSpec == OcrInit /\ [][OcrNext]_vars

\* ---- the transcription calls one by one

\* The detections runOCR is called with here, and the capability's answers:
\* two answered calls and a rejected one.
TranscribeCases ==
  { [box |-> LeftBox, confidence |-> 9,
     answer |-> [ok |-> TRUE, text |-> <<"H", "E", "L", "P", "!">>]],
    [box |-> MiddleBox, confidence |-> 4,
     answer |-> [ok |-> TRUE, text |-> <<"B", "O", "O", "M">>]],
    [box |-> RightBox, confidence |-> 9, answer |-> [ok |-> FALSE]] }

\* runOCR has been called and predictions.map has run: the closures are
\* making their crops, no call has gone out yet.
TranscribeInit ==
  /\ \E cases \in SeqsUpTo(TranscribeCases, MaxRegions) :
       /\ ocrRegions = [k \in 1..Len(cases) |->
                          [x |-> cases[k].box.x, y |-> cases[k].box.y,
                           width |-> cases[k].box.width,
                           height |-> cases[k].box.height,
                           confidence |-> cases[k].confidence]]
       /\ transcripts = [k \in 1..Len(cases) |-> cases[k].answer]
  /\ ocrPc = "transcribe"
  /\ ocrCalls = {}
  /\ withOCR = <<>>
  /\ validOCR = <<>>
  /\ tdUnique = <<>>
  /\ tdIdx = 0
  /\ deduplicatedOCR = <<>>
  /\ completionOrder = <<>>
  /\ promiseValues = <<>>
  /\ DetIdle
  /\ CtxIdle
  /\ RunIdle
  /\ KernelIdle

TranscribeNext ==
  \/ \E k \in 1..Len(ocrRegions) : OcrCallIssued(k)
  \/ \E k \in 1..Len(ocrRegions) : OcrCallReturns(k)
  \/ OcrAllSettled

TranscribeSpec == TranscribeInit /\ [][TranscribeNext]_vars

----------------------------------------------------------------------------
(* Context classification: gemini-context.ts *)

\* null and undefined (a ?? b takes b for either).
NULL == "<null>"

\* ---- the capability's answer
\* A rejected call is [kind |-> "rejected"]; an answer is [kind |-> "text",
\* text |-> tokens], tokens a sequence of records: [tok |-> "prose"] (words
\* with no brace or fence in them), [tok |-> "fence-json"] (three backticks and json), [tok |-> "fence"]
\* (three backticks),
\* [tok |-> "{"], [tok |-> "}"], [tok |-> "null"] and [tok |-> "members",
\* value |-> [type, speaker, emotion]] (the members of a JSON object, a field
\* NULL when the object has no such member or has it null).  The empty token
\* sequence is an answer without text.

Tok(t) == [tok |-> t]

IndexOfTok(text, t, from) ==
  LET hits == {k \in from..Len(text) : text[k] = Tok(t)}
  IN  IF hits = {} THEN 0 ELSE CHOOSE k \in hits : \A j \in hits : k <= j

LastIndexOfTok(text, t) ==
  LET hits == {k \in 1..Len(text) : text[k] = Tok(t)}
  IN  IF hits = {} THEN 0 ELSE CHOOSE k \in hits : \A j \in hits : k >= j

\* The two fence matches of analyzeContextGemini (the json fence first, any
\* fence otherwise, each a lazy match up to the next fence): what lies between
\* the opening fence and the next fence; the whole text when there is no such
\* pair.
stripCodeFence(text) ==
  LET open == IF IndexOfTok(text, "fence-json", 1) # 0
                THEN IndexOfTok(text, "fence-json", 1)
                ELSE IndexOfTok(text, "fence", 1)
      closers == {k \in (open + 1)..Len(text) :
                    text[k] = Tok("fence") \/ text[k] = Tok("fence-json")}
      close == IF open = 0 \/ closers = {} THEN 0
               ELSE CHOOSE k \in closers : \A j \in closers : k <= j
  IN  IF open # 0 /\ close # 0 THEN SubSeq(text, open + 1, close - 1) ELSE text

\* jsonText.match(/\{[\s\S]*\}/): from the first { to the last }.
outermostBraces(text) ==
  LET first == IndexOfTok(text, "{", 1)
      last == LastIndexOfTok(text, "}")
  IN  IF first # 0 /\ last > first THEN SubSeq(text, first, last) ELSE text

\* JSON.parse followed by the reads of parsed.type, parsed.speaker and
\* parsed.emotion: [ok |-> TRUE] with the members of an object, or
\* [ok |-> FALSE] when one of them throws (no JSON, or the JSON null, whose
\* members cannot be read).
parseMembers(jsonText) ==
  IF /\ Len(jsonText) = 3
     /\ jsonText[1] = Tok("{")
     /\ jsonText[2].tok = "members"
     /\ jsonText[3] = Tok("}")
    THEN [ok |-> TRUE, value |-> jsonText[2].value]
  ELSE IF jsonText = <<Tok("{"), Tok("}")>>
    THEN [ok |-> TRUE, value |-> [type |-> NULL, speaker |-> NULL, emotion |-> NULL]]
  ELSE [ok |-> FALSE]

\* A slip the failure default could have: a placeholder name for the speaker.
DefaultContext_UnknownSpeaker ==
  [type |-> "SPEECH", speaker |-> "Unknown", emotion |-> "neutral"]

\* analyzeContextGemini, lines 248-256: what the catch returns.
DefaultContext == [type |-> "SPEECH", speaker |-> NULL, emotion |-> "neutral"]

\* A slip analyzeContextGemini could have: parsed.type returned as it is,
\* without the SPEECH default.
analyzeContextGemini_NoTypeDefault(answer) ==
  IF answer.kind = "rejected" THEN DefaultContext
  ELSE IF Len(answer.text) = 0 THEN DefaultContext
  ELSE LET parsed == parseMembers(outermostBraces(stripCodeFence(answer.text)))
       IN  IF ~parsed.ok THEN DefaultContext
           ELSE [type |-> parsed.value.type,
                 speaker |-> parsed.value.speaker,
                 emotion |-> IF parsed.value.emotion = NULL THEN "neutral"
                             ELSE parsed.value.emotion]

\* analyzeContextGemini: the type, speaker and emotion it returns (the
\* descriptive members are passed through untouched and are left out).
analyzeContextGemini(answer) ==
  IF answer.kind = "rejected" THEN DefaultContext
  ELSE IF Len(answer.text) = 0 THEN DefaultContext
  ELSE LET parsed == parseMembers(outermostBraces(stripCodeFence(answer.text)))
       IN  IF ~parsed.ok THEN DefaultContext
           ELSE [type |-> IF parsed.value.type = NULL THEN "SPEECH"
                          ELSE parsed.value.type,
                 speaker |-> parsed.value.speaker,
                 emotion |-> IF parsed.value.emotion = NULL THEN "neutral"
                             ELSE parsed.value.emotion]

\* String(n).padStart(2, "0"), for 1 <= n <= 99.
DigitChar(n) == <<"0", "1", "2", "3", "4", "5", "6", "7", "8", "9">>[n + 1]
padStart2(n) ==
  IF n < 10 THEN <<"0", DigitChar(n)>>
  ELSE <<DigitChar(n \div 10), DigitChar(n % 10)>>

\* A slip analyzeContext could have: the page left out of the id.
bubbleId_WithoutPage(page, i) == <<"b">> \o padStart2(i + 1)

\* The template pageName, "_b", String(i + 1).padStart(2, "0").
bubbleId(page, i) == <<page, "_", "b">> \o padStart2(i + 1)

\* const { ocr_text, ...box } = ocrPredictions[i]
boxOfPrediction(pred) ==
  [index |-> pred.index, x |-> pred.x, y |-> pred.y, width |-> pred.width,
   height |-> pred.height, confidence |-> pred.confidence]

\* A slip analyzeContext could have: BACKGROUND left out of the skipped types.
isSkippedType_SfxOnly(type) == type = "SFX"

\* analyzeContext, line 91.
isSkippedType(type) == type = "SFX" \/ type = "BACKGROUND"
isNarratorType(type) == type = "NARRATION" \/ type = "CAPTION"

\* A slip analyzeContext could have: CAPTION left out of the narrator types.
narratorSpeaker_NarrationOnly(context) ==
  IF context.type = "NARRATION" THEN "Narrator" ELSE context.speaker

\* analyzeContext, lines 104-111.
narratorSpeaker(context) ==
  IF isNarratorType(context.type) THEN "Narrator" ELSE context.speaker

narratorEmotion(context) ==
  IF isNarratorType(context.type) THEN "Neutral" ELSE context.emotion

\* A slip analyzeContext could have: the name is not kept.
addCharacter_Forgotten(roster, speaker) == roster

\* !!speaker && uniqueCharacters.add(speaker)
addCharacter(roster, speaker) ==
  IF speaker = NULL \/ speaker = "" THEN roster
  ELSE IF \E k \in 1..Len(roster) : roster[k] = speaker THEN roster
  ELSE Append(roster, speaker)

makeBubble(page, i, pred, context) ==
  [id |-> bubbleId(page, i),
   box_2d |-> boxOfPrediction(pred),
   ocr_text |-> pred.ocr_text,
   type |-> context.type,
   speaker |-> narratorSpeaker(context),
   emotion |-> narratorEmotion(context)]

\* ---- inputs of the classification stage

MaxClassified == 2

PageNames == {"page-01"}

CtxRegions ==
  { [index |-> 0, x |-> 0, y |-> 0, width |-> 11, height |-> 2, confidence |-> 9,
     ocr_text |-> <<"H", "E", "L", "P", "!">>],
    [index |-> 2, x |-> 9, y |-> 0, width |-> 11, height |-> 2, confidence |-> 4,
     ocr_text |-> <<"B", "O", "O", "M">>] }

AnswerTypes == {NULL, "SPEECH", "NARRATION", "CAPTION", "SFX", "BACKGROUND", "THOUGHT"}
AnswerSpeakers == {NULL, "Leo"}
AnswerEmotions == {NULL, "angry"}

Members(t, s, e) == [tok |-> "members", value |-> [type |-> t, speaker |-> s, emotion |-> e]]

\* The answer the prompt asks for: a scratchpad, then the object in a fence.
FencedAnswers ==
  { [kind |-> "text",
     text |-> <<Tok("prose"), Tok("fence-json"), Tok("{"), Members(t, s, e), Tok("}"),
                Tok("fence")>>] :
      t \in AnswerTypes, s \in AnswerSpeakers, e \in AnswerEmotions }

\* Other shapes: the bare object, the object in a plain fence, the object
\* amid prose, the object after prose with braces of its own, prose alone,
\* the JSON null, no text, and a rejected call.
OtherAnswers ==
  LET obj == <<Tok("{"), Members("NARRATION", "Leo", "angry"), Tok("}")>>
  IN  { [kind |-> "text", text |-> obj],
        [kind |-> "text", text |-> <<Tok("fence")>> \o obj \o <<Tok("fence")>>],
        [kind |-> "text", text |-> <<Tok("prose")>> \o obj \o <<Tok("prose")>>],
        [kind |-> "text",
         text |-> <<Tok("{"), Tok("prose"), Tok("}"), Tok("prose")>> \o obj],
        [kind |-> "text", text |-> <<Tok("prose")>>],
        [kind |-> "text", text |-> <<Tok("null")>>],
        [kind |-> "text", text |-> <<>>],
        [kind |-> "rejected"] }

Answers == FencedAnswers \cup OtherAnswers

\* ---- the stage as a state machine

\* analyzeContext, lines 40-48: --skip-gemini.
CtxSkipGemini ==
  /\ ctxPc = "loop"
  /\ skipGemini
  /\ ctxPc' = "done"
  /\ UNCHANGED <<pageName, skipGemini, ocrPredictions, ctxI, bubbles, skipped,
                 uniqueCharacters, calls>>
  /\ UNCHANGED <<detVars, ocrVars, runVars, kernelVars>>

\* analyzeContext, lines 90-127: the result of the call for region ctxI is
\* handled (skipped, or emitted as a Bubble and its speaker added to the
\* roster) and the loop goes on to the next region, whose call it issues.
CtxHandled(context) ==
  LET pred == ocrPredictions[ctxI + 1]
  IN  /\ IF isSkippedType(context.type)
           THEN /\ skipped' = Append(skipped,
                                     [text |-> pred.ocr_text,
                                      reason |-> <<"Type: ", context.type>>])
                /\ UNCHANGED <<bubbles, uniqueCharacters>>
           ELSE /\ uniqueCharacters' =
                     addCharacter(uniqueCharacters, narratorSpeaker(context))
                /\ bubbles' = Append(bubbles,
                                     makeBubble(pageName, ctxI, pred, context))
                /\ UNCHANGED skipped
      /\ ctxI' = ctxI + 1

\* analyzeContext, lines 72-88: the classifier call of region ctxI, in flight
\* since the loop reached the region, comes back.  analyzeContextGemini
\* catches whatever its call throws, so the catch of analyzeContext (lines
\* 128-134) has nothing to catch.  Before the last region the 2000 ms timer
\* of line 87 is started and the result waits; for the last region there is
\* no timer and the result is handled at once.
CtxAnswered ==
  /\ ctxPc = "loop"
  /\ ~skipGemini
  /\ ctxI < Len(ocrPredictions)
  /\ Len(calls) = ctxI
  /\ \E answer \in Answers :
       /\ calls' = Append(calls, [text |-> ocrPredictions[ctxI + 1].ocr_text,
                                  roster |-> uniqueCharacters,
                                  answer |-> answer])
       /\ IF ctxI < Len(ocrPredictions) - 1
            THEN UNCHANGED <<ctxI, bubbles, skipped, uniqueCharacters>>
            ELSE CtxHandled(analyzeContextGemini(answer))
  /\ UNCHANGED ctxPc
  /\ UNCHANGED <<pageName, skipGemini, ocrPredictions>>
  /\ UNCHANGED <<detVars, ocrVars, runVars, kernelVars>>

\* analyzeContext, lines 86-127: the timer fires, the result that waited is
\* handled.
CtxDelayed ==
  /\ ctxPc = "loop"
  /\ Len(calls) > ctxI
  /\ CtxHandled(analyzeContextGemini(calls[Len(calls)].answer))
  /\ UNCHANGED <<ctxPc, pageName, skipGemini, ocrPredictions, calls>>
  /\ UNCHANGED <<detVars, ocrVars, runVars, kernelVars>>

\* analyzeContext, lines 137-142: the loop is over, the Bubble list is written
\* and returned.
CtxReturn ==
  /\ ctxPc = "loop"
  /\ ~skipGemini
  /\ ctxI = Len(ocrPredictions)
  /\ ctxPc' = "done"
  /\ UNCHANGED <<pageName, skipGemini, ocrPredictions, ctxI, bubbles, skipped,
                 uniqueCharacters, calls>>
  /\ UNCHANGED <<detVars, ocrVars, runVars, kernelVars>>

\* analyzeContext is called with up to MaxClassified regions.
CtxInit ==
  /\ ctxPc = "loop"
  /\ pageName \in PageNames
  /\ skipGemini \in BOOLEAN
  /\ ocrPredictions \in SeqsUpTo(CtxRegions, MaxClassified)
  /\ ctxI = 0
  /\ bubbles = <<>>
  /\ skipped = <<>>
  /\ uniqueCharacters = <<>>
  /\ calls = <<>>
  /\ DetIdle
  /\ OcrIdle
  /\ RunIdle
  /\ KernelIdle

CtxNext ==
  \/ CtxSkipGemini
  \/ CtxAnswered
  \/ CtxDelayed
  \/ CtxReturn

CtxSpec == CtxInit /\ [][CtxNext]_vars

----------------------------------------------------------------------------
(* The run: generate-manifest.ts, main of get-context *)

\* ---- page files.  A path is modelled by its file name, a sequence of
\* characters.

\* The characters of the page file names, in the order of their code units.
CodeOrder == <<"-", ".", "0", "1", "2", "3", "4", "5", "6", "7", "8", "9",
               "a", "e", "g", "j", "p">>
CharCode(c) == CHOOSE k \in 1..Len(CodeOrder) : CodeOrder[k] = c

\* a < b for strings: by the first code unit that differs, a proper prefix
\* first.
LexLess(a, b) ==
  LET diffs == {k \in 1..Min(Len(a), Len(b)) : a[k] # b[k]}
  IN  IF diffs = {} THEN Len(a) < Len(b)
      ELSE LET k == CHOOSE d \in diffs : \A e \in diffs : d <= e
           IN  CharCode(a[k]) < CharCode(b[k])

\* A slip getPageFiles could have: the listing used as glob returned it.
sortPaths_Unsorted(paths) == paths

\* pageFiles.sort(): ascending, by insertion of each path after the paths
\* that are not greater.
RECURSIVE sortPaths(_)
sortPaths(paths) ==
  IF paths = <<>> THEN <<>>
  ELSE LET rest == sortPaths(SubSeq(paths, 1, Len(paths) - 1))
           p == paths[Len(paths)]
           before == {k \in 1..Len(rest) : ~LexLess(p, rest[k])}
           n == Cardinality(before)
       IN  SubSeq(rest, 1, n) \o <<p>> \o SubSeq(rest, n + 1, Len(rest))

PagePrefix == <<"p", "a", "g", "e", "-">>
JpgSuffix == <<".", "j", "p", "g">>

\* page-<digits>.jpg
PageFile(digits) == PagePrefix \o digits \o JpgSuffix

\* parseInt(digits, 10)
RECURSIVE parseInt10(_)
parseInt10(digits) ==
  IF digits = <<>> THEN 0
  ELSE 10 * parseInt10(SubSeq(digits, 1, Len(digits) - 1))
         + (CharCode(digits[Len(digits)]) - CharCode("0"))

\* filename.match(/^page-(\d+)\.jpg$/): the digits, or <<>> without a match.
pageDigits(filename) ==
  LET n == Len(filename)
      mid == SubSeq(filename, Len(PagePrefix) + 1, n - Len(JpgSuffix))
  IN  IF /\ n > Len(PagePrefix) + Len(JpgSuffix)
         /\ SubSeq(filename, 1, Len(PagePrefix)) = PagePrefix
         /\ SubSeq(filename, n - Len(JpgSuffix) + 1, n) = JpgSuffix
         /\ \A k \in 1..Len(mid) : mid[k] \in Digits
        THEN mid
      ELSE <<>>

\* parseArgs leaves page and startAt null unless a positive number is given:
\* the model writes null as 0.
NoNumber == 0

\* String(n).padStart(2, "0") and the target names of getPageFiles.
targetPage(pageNum) == PageFile(padStart2(pageNum))

\* getPageFiles: the sorted listing, narrowed by --page, else by --start-at.
\* An empty result makes getPageFiles exit with code 1.
getPageFiles(listing, pageNum, startAt) ==
  LET sorted == sortPaths(listing)
  IN  IF pageNum # NoNumber
        THEN SelectSeq(sorted, LAMBDA f : f = targetPage(pageNum))
      ELSE IF startAt # NoNumber
        THEN SelectSeq(sorted, LAMBDA f : /\ pageDigits(f) # <<>>
                                          /\ parseInt10(pageDigits(f)) >= startAt)
      ELSE sorted

\* pagePath.split("/").pop()?.replace(".jpg", ""): the first ".jpg" removed.
stripJpg(filename) ==
  LET hits == {k \in 1..(Len(filename) - Len(JpgSuffix) + 1) :
                 SubSeq(filename, k, k + Len(JpgSuffix) - 1) = JpgSuffix}
  IN  IF hits = {} THEN filename
      ELSE LET k == CHOOSE h \in hits : \A e \in hits : h <= e
           IN  SubSeq(filename, 1, k - 1)
                 \o SubSeq(filename, k + Len(JpgSuffix), Len(filename))

\* ---- what processPage composes

\* detectTextRegions, lines 65-72, on the parsed predictions of a response.
detectTextRegions(raw, spatialDedup) ==
  filterContainerBoxes(
    spatialDeduplication(convertCenterToTopLeft(raw), SPATIAL_TOLERANCE, ~spatialDedup))

\* runOCR, lines 25-48, on the capability's answers.
runOCR(predictions, answers) ==
  deduplicateOCRPredictionsByText(filterValid(transcribeAll(predictions, answers)))

\* ---- inputs of the run

\* The files that glob("page-*.jpg") finds, and the orders it may list them in.
PagesDirectory == {PageFile(<<"0", "1">>), PageFile(<<"1", "0">>), PageFile(<<"2">>)}
Listings ==
  {l \in [1..Cardinality(PagesDirectory) -> PagesDirectory] :
     \A a, b \in DOMAIN l : a # b => l[a] # l[b]}

\* The command lines: no option, --page=1, --page=2 (there is no
\* page-02.jpg), --start-at=2, --skip-gemini, --page=1 --use-spatial-dedup.
RunOptions ==
  { [page |-> NoNumber, startAt |-> NoNumber, useSpatialDedup |-> FALSE, skipGemini |-> FALSE],
    [page |-> 1, startAt |-> NoNumber, useSpatialDedup |-> FALSE, skipGemini |-> FALSE],
    [page |-> 2, startAt |-> NoNumber, useSpatialDedup |-> FALSE, skipGemini |-> FALSE],
    [page |-> NoNumber, startAt |-> 2, useSpatialDedup |-> FALSE, skipGemini |-> FALSE],
    [page |-> NoNumber, startAt |-> NoNumber, useSpatialDedup |-> FALSE, skipGemini |-> TRUE],
    [page |-> 1, startAt |-> NoNumber, useSpatialDedup |-> TRUE, skipGemini |-> FALSE] }

\* Three raw detections (centre-based): #1 is a panel-sized box, #2 a
\* balloon fully inside #1, #3 a box apart from both.
ThreeDetections ==
  << [x |-> 10, y |-> 5, width |-> 20, height |-> 10, confidence |-> 9],
     [x |-> 5, y |-> 2, width |-> 6, height |-> 2, confidence |-> 9],
     [x |-> 30, y |-> 5, width |-> 10, height |-> 4, confidence |-> 4] >>

\* What the detection service answers for a page: an error (a rejected
\* fetch, or a status that is not ok), no prediction, or the three
\* detections above, two of which are left for transcription.
DetectionResponses ==
  { [ok |-> FALSE],
    [ok |-> TRUE, predictions |-> <<>>],
    [ok |-> TRUE, predictions |-> ThreeDetections] }

\* What the transcription capability answers for the crop of each of the
\* three detections: the crop of the first holds the lettering of the second.
RunTranscripts ==
  << [ok |-> TRUE, text |-> <<"H", "E", "L", "L", "O">>],
     [ok |-> TRUE, text |-> <<"H", "E", "L", "L", "O">>],
     [ok |-> TRUE, text |-> <<"B", "O", "O", "M">>] >>

\* The same with the call for the third detection rejected.
RunTranscriptsSecondFails ==
  << [ok |-> TRUE, text |-> <<"H", "E", "L", "L", "O">>],
     [ok |-> TRUE, text |-> <<"H", "E", "L", "L", "O">>],
     [ok |-> FALSE] >>

\* runOCR, lines 21-44: each call is made with the crop of its own region,
\* so the answer a region gets is the answer for the detection it came from.
answersFor(predictions, raw, responses) ==
  [n \in 1..Len(predictions) |->
     responses[CHOOSE r \in 1..Len(raw) :
                 convertCenterToTopLeft(raw)[r] = predictions[n]]]

\* What the classifier answers for a region: speech of Leo, or a sound
\* effect; or the call is rejected.
RunAnswers ==
  { [kind |-> "rejected"],
    [kind |-> "text",
     text |-> <<Tok("prose"), Tok("fence-json"), Tok("{"),
                Members("SPEECH", "Leo", "angry"), Tok("}"), Tok("fence")>>],
    [kind |-> "text",
     text |-> <<Tok("prose"), Tok("fence-json"), Tok("{"),
                Members("SFX", NULL, NULL), Tok("}"), Tok("fence")>>] }

\* ---- the page tasks

\* const LIMIT = pLimit(2)
LimitConcurrency == 2

\* A page task: where it stands (queued | read | detect | ocr | save |
\* classify | delay | write | resolved | rejected), the locals of processPage
\* and analyzeContext, the capability calls it has issued (ocrCalls: the
\* regions whose transcription call has gone out, in the order they went;
\* responses: the answers that have come back, by region; issued: the
\* classifier calls sent; calls: the classifier calls answered), the tasks
\* that had resolved when it started, and what it resolved with.
NewTask ==
  [pc |-> "queued", raw |-> <<>>, predictions |-> <<>>, responses |-> <<>>,
   ocrPredictions |-> <<>>, i |-> 0,
   bubbles |-> <<>>, skipped |-> <<>>, uniqueCharacters |-> <<>>, calls |-> <<>>,
   detectCalls |-> 0, ocrCalls |-> <<>>, issued |-> 0, startedAfter |-> {},
   fromCache |-> FALSE,
   result |-> <<>>]

InFlight ==
  {k \in 1..Len(tasks) :
     tasks[k].pc \in {"read", "detect", "ocr", "save", "classify", "delay", "write"}}

\* A slip the limiter could have: one task too many.
slotFree_OneTooMany(active) == active <= LimitConcurrency

\* p-limit: a queued function starts when fewer than the limit are active.
slotFree(active) == active < LimitConcurrency

\* A slip the cache test could have: an empty Bubble list taken for no entry.
isCached_NonEmptyOnly(cache, name) == name \in DOMAIN cache /\ cache[name] # <<>>

\* main, line 416: if (cache[pageName]).  An array is truthy, the empty one
\* included; a missing key is undefined.
isCached(cache, name) == name \in DOMAIN cache

\* A task resolves: processPage (or the short-circuit) returns these Bubbles.
Resolved(task, result) == [task EXCEPT !.pc = "resolved", !.result = result]

\* p-limit has a page queued and a slot free: it starts the page in the
\* continuation of the promise that freed the slot, before the event loop
\* takes the completion of any call or file operation.
StartPending ==
  \E k \in 1..Len(tasks) :
    tasks[k].pc = "queued" /\ slotFree(Cardinality(InFlight))

\* A page task has rejected and main's catch has not run yet.
RejectionPending == \E k \in 1..Len(tasks) : tasks[k].pc = "rejected"

\* The event loop is free to take the completion of a call, a timer or a
\* file operation of a page task.
EventLoopFree == runPc = "running" /\ ~StartPending /\ ~RejectionPending

\* ---- the run as a state machine

\* main, lines 380-405: the arguments are parsed and the cache file is read
\* (no file: an empty cache).
RunLoad ==
  /\ runPc = "start"
  /\ loaded' = IF cacheFile.present THEN cacheFile.pages ELSE <<>>
  /\ runPc' = "list"
  /\ UNCHANGED <<options, cacheFile, pageFiles, tasks>>
  /\ UNCHANGED <<detVars, ocrVars, ctxVars, kernelVars>>

\* main, lines 407-428: the page files are listed and every page is handed
\* to LIMIT.  getPageFiles exits with code 1 when no page is selected.
RunStart ==
  /\ runPc = "list"
  /\ \E listing \in Listings :
       LET files == getPageFiles(listing, options.page, options.startAt)
       IN  /\ pageFiles' = files
           /\ tasks' = [k \in 1..Len(files) |-> NewTask]
           /\ runPc' = IF files = <<>> THEN "exited1" ELSE "running"
  /\ UNCHANGED <<options, cacheFile, loaded>>
  /\ UNCHANGED <<detVars, ocrVars, ctxVars, kernelVars>>

\* main, lines 412-425: LIMIT starts the next queued task, in the order of
\* pageFiles.  A page that is a key of the cache resolves at once with the
\* cached Bubbles; any other page enters processPage, which starts reading
\* the image.  A slot freed by a rejected task is taken before main's catch
\* runs.
TaskStart(k) ==
  /\ runPc = "running"
  /\ tasks[k].pc = "queued"
  /\ \A j \in 1..(k - 1) : tasks[j].pc # "queued"
  /\ slotFree(Cardinality(InFlight))
  /\ tasks' =
       [tasks EXCEPT ![k] =
          IF isCached(loaded, pageFiles[k])
            THEN [Resolved(@, loaded[pageFiles[k]]) EXCEPT !.fromCache = TRUE]
          ELSE [@ EXCEPT !.pc = "read",
                         !.startedAfter = {j \in 1..Len(tasks) : tasks[j].pc = "resolved"}]]
  /\ UNCHANGED <<runPc, options, cacheFile, loaded, pageFiles>>
  /\ UNCHANGED <<detVars, ocrVars, ctxVars, kernelVars>>

\* A task rejects: processPage throws, the promise LIMIT returned for the
\* page rejects.
TaskRejects(k) ==
  /\ tasks' = [tasks EXCEPT ![k].pc = "rejected"]
  /\ UNCHANGED <<runPc, options, cacheFile, loaded, pageFiles>>
  /\ UNCHANGED <<detVars, ocrVars, ctxVars, kernelVars>>

\* main, lines 458-461: Promise.all has rejected, the catch logs the error
\* and calls process.exit(1).  The other tasks end with the process.
RunExit ==
  /\ runPc = "running"
  /\ RejectionPending
  /\ ~StartPending
  /\ runPc' = "exited1"
  /\ UNCHANGED <<options, cacheFile, loaded, pageFiles, tasks>>
  /\ UNCHANGED <<detVars, ocrVars, ctxVars, kernelVars>>

\* processPage, line 563: fs.readFile settles.  With the image read,
\* detectTextRegions sends it to the detection service.
TaskRead(k) ==
  /\ EventLoopFree
  /\ tasks[k].pc = "read"
  /\ \E readable \in BOOLEAN :
       IF readable
         THEN /\ tasks' = [tasks EXCEPT ![k].pc = "detect", ![k].detectCalls = 1]
              /\ UNCHANGED <<runPc, options, cacheFile, loaded, pageFiles>>
              /\ UNCHANGED <<detVars, ocrVars, ctxVars, kernelVars>>
         ELSE TaskRejects(k)

\* A slip processPage could have: the detection call is sent again after an
\* error.
TaskDetect_RetriesOnError(k) ==
  /\ EventLoopFree
  /\ tasks[k].pc = "detect"
  /\ \E response \in DetectionResponses :
       /\ tasks' =
            [tasks EXCEPT ![k] =
               IF ~response.ok THEN [@ EXCEPT !.detectCalls = @ + 1]
               ELSE Resolved([@ EXCEPT !.raw = response.predictions], <<>>)]
       /\ UNCHANGED <<runPc, options, cacheFile, loaded, pageFiles>>
       /\ UNCHANGED <<detVars, ocrVars, ctxVars, kernelVars>>

\* detectTextRegions: the detection service has answered.  An error is
\* thrown; no prediction makes processPage return []; otherwise runOCR is
\* called, and its closures start making their crops.
TaskDetect(k) ==
  /\ EventLoopFree
  /\ tasks[k].pc = "detect"
  /\ \E response \in DetectionResponses :
       IF ~response.ok THEN TaskRejects(k)
       ELSE LET predictions ==
                  detectTextRegions(response.predictions, options.useSpatialDedup)
            IN  /\ tasks' =
                     [tasks EXCEPT ![k] =
                        IF Len(predictions) = 0
                          THEN Resolved([@ EXCEPT !.raw = response.predictions], <<>>)
                        ELSE [@ EXCEPT !.pc = "ocr",
                                       !.raw = response.predictions,
                                       !.predictions = predictions]]
                /\ UNCHANGED <<runPc, options, cacheFile, loaded, pageFiles>>
                /\ UNCHANGED <<detVars, ocrVars, ctxVars, kernelVars>>

\* The regions of task k whose transcription call has gone out, and those
\* whose call has come back.
TaskIssued(k) == {tasks[k].ocrCalls[j] : j \in 1..Len(tasks[k].ocrCalls)}
TaskReturned(k) == DOMAIN tasks[k].responses

\* runOCRGemini, lines 78-94: the closure of region n has its crop and sends
\* it to the transcription capability.
TaskOcrIssued(k, n) ==
  /\ EventLoopFree
  /\ tasks[k].pc = "ocr"
  /\ n \in 1..Len(tasks[k].predictions)
  /\ n \notin TaskIssued(k)
  /\ tasks' = [tasks EXCEPT ![k].ocrCalls = Append(@, n)]
  /\ UNCHANGED <<runPc, options, cacheFile, loaded, pageFiles>>
  /\ UNCHANGED <<detVars, ocrVars, ctxVars, kernelVars>>

\* runOCR, lines 26-32: the transcription call of region n comes back.
TaskOcrReturns(k, n) ==
  /\ EventLoopFree
  /\ tasks[k].pc = "ocr"
  /\ n \in TaskIssued(k)
  /\ n \notin TaskReturned(k)
  /\ \E given \in {RunTranscripts, RunTranscriptsSecondFails} :
       tasks' =
         [tasks EXCEPT ![k].responses =
            [m \in TaskReturned(k) \cup {n} |->
               IF m = n
                 THEN answersFor(tasks[k].predictions, tasks[k].raw, given)[n]
               ELSE tasks[k].responses[m]]]
  /\ UNCHANGED <<runPc, options, cacheFile, loaded, pageFiles>>
  /\ UNCHANGED <<detVars, ocrVars, ctxVars, kernelVars>>

\* runOCR, lines 25-58: every transcription call has come back and the
\* viewer is written; the regions are filtered and deduplicated, and
\* saveOCRPredictions starts writing them.
TaskTranscribe(k) ==
  /\ EventLoopFree
  /\ tasks[k].pc = "ocr"
  /\ TaskReturned(k) = 1..Len(tasks[k].predictions)
  /\ LET answers == [n \in 1..Len(tasks[k].predictions) |-> tasks[k].responses[n]]
     IN  tasks' = [tasks EXCEPT ![k].pc = "save",
                                ![k].ocrPredictions = runOCR(tasks[k].predictions, answers)]
  /\ UNCHANGED <<runPc, options, cacheFile, loaded, pageFiles>>
  /\ UNCHANGED <<detVars, ocrVars, ctxVars, kernelVars>>

\* runOCR, lines 58-65, and analyzeContext, lines 40-78: the regions are
\* saved and runOCR returns them.  analyzeContext returns at once under
\* --skip-gemini, starts writing its file when no region is left, and sends
\* the classifier call of the first region otherwise.
TaskSaved(k) ==
  /\ EventLoopFree
  /\ tasks[k].pc = "save"
  /\ tasks' =
       [tasks EXCEPT ![k] =
          IF options.skipGemini THEN Resolved(@, <<>>)
          ELSE IF Len(@.ocrPredictions) = 0 THEN [@ EXCEPT !.pc = "write"]
          ELSE [@ EXCEPT !.pc = "classify", !.issued = 1]]
  /\ UNCHANGED <<runPc, options, cacheFile, loaded, pageFiles>>
  /\ UNCHANGED <<detVars, ocrVars, ctxVars, kernelVars>>

\* A slip analyzeContext could have: one roster for all the pages of the run.
pageRoster_Shared(k) ==
  IF \E j \in 1..Len(tasks) : tasks[j].uniqueCharacters # <<>>
    THEN tasks[CHOOSE j \in 1..Len(tasks) : tasks[j].uniqueCharacters # <<>>].uniqueCharacters
  ELSE <<>>

\* analyzeContext, line 53 and line 77: the roster passed with a classifier
\* call is Array.from(uniqueCharacters), the Set local to this page's call of
\* analyzeContext.
pageRoster(k) == tasks[k].uniqueCharacters

\* analyzeContext, lines 90-127, as in CtxHandled: the result of the call for
\* region task.i is skipped, or emitted as a Bubble of the page and its
\* speaker added to the roster.
taskHandled(task, page, context) ==
  LET pred == task.ocrPredictions[task.i + 1]
      counted == [task EXCEPT !.i = @ + 1]
  IN  IF isSkippedType(context.type)
        THEN [counted EXCEPT
                !.skipped = Append(@, [text |-> pred.ocr_text,
                                       reason |-> <<"Type: ", context.type>>])]
      ELSE [counted EXCEPT
              !.uniqueCharacters = addCharacter(@, narratorSpeaker(context)),
              !.bubbles = Append(@, makeBubble(page, task.i, pred, context))]

\* analyzeContext, lines 72-88: the classifier call of region i comes back.
\* Before the last region the 2000 ms timer is started and the result waits;
\* the result of the last region is handled at once, the loop is over and
\* the Bubble list is being written.
TaskAnswered(k) ==
  /\ EventLoopFree
  /\ tasks[k].pc = "classify"
  /\ \E answer \in RunAnswers :
       LET task == tasks[k]
           called == [task EXCEPT
                        !.calls = Append(@, [text |-> task.ocrPredictions[task.i + 1].ocr_text,
                                             roster |-> pageRoster(k),
                                             answer |-> answer])]
       IN  tasks' =
             [tasks EXCEPT ![k] =
                IF task.i + 1 < Len(task.ocrPredictions)
                  THEN [called EXCEPT !.pc = "delay"]
                ELSE [taskHandled(called, stripJpg(pageFiles[k]),
                                  analyzeContextGemini(answer))
                        EXCEPT !.pc = "write"]]
  /\ UNCHANGED <<runPc, options, cacheFile, loaded, pageFiles>>
  /\ UNCHANGED <<detVars, ocrVars, ctxVars, kernelVars>>

\* analyzeContext, lines 86-127 and 55-78: the timer fires, the result that
\* waited is handled, and the classifier call of the next region is sent.
TaskDelayed(k) ==
  /\ EventLoopFree
  /\ tasks[k].pc = "delay"
  /\ LET task == tasks[k]
         context == analyzeContextGemini(task.calls[Len(task.calls)].answer)
     IN  tasks' =
           [tasks EXCEPT ![k] =
              [taskHandled(task, stripJpg(pageFiles[k]), context)
                 EXCEPT !.pc = "classify", !.issued = @ + 1]]
  /\ UNCHANGED <<runPc, options, cacheFile, loaded, pageFiles>>
  /\ UNCHANGED <<detVars, ocrVars, ctxVars, kernelVars>>

\* analyzeContext, lines 137-142, and processPage, lines 586-604: the Bubble
\* list is written to the page's context file and returned.
TaskWritten(k) ==
  /\ EventLoopFree
  /\ tasks[k].pc = "write"
  /\ tasks' = [tasks EXCEPT ![k] = Resolved(@, @.bubbles)]
  /\ UNCHANGED <<runPc, options, cacheFile, loaded, pageFiles>>
  /\ UNCHANGED <<detVars, ocrVars, ctxVars, kernelVars>>

\* A slip the update could have: a cache rebuilt from the results alone.
updatedCache_ResultsOnly ==
  [name \in {pageFiles[k] : k \in 1..Len(pageFiles)} |->
     tasks[CHOOSE k \in 1..Len(pageFiles) : pageFiles[k] = name].result]

\* The cache of main after lines 431-433: every result is stored under its
\* page's file name.
updatedCache ==
  [name \in (DOMAIN loaded) \cup {pageFiles[k] : k \in 1..Len(pageFiles)} |->
     IF \E k \in 1..Len(pageFiles) : pageFiles[k] = name
       THEN tasks[CHOOSE k \in 1..Len(pageFiles) : pageFiles[k] = name].result
     ELSE loaded[name]]

\* main, lines 430-457: every task has resolved; the cache is updated and
\* written to the cache file, and the run ends.
RunSave ==
  /\ runPc = "running"
  /\ \A k \in 1..Len(tasks) : tasks[k].pc = "resolved"
  /\ cacheFile' = [present |-> TRUE, pages |-> updatedCache]
  /\ runPc' = "exited0"
  /\ UNCHANGED <<options, loaded, pageFiles, tasks>>
  /\ UNCHANGED <<detVars, ocrVars, ctxVars, kernelVars>>

\* The script is run again, on the cache file the earlier runs have left.
RunAgain ==
  /\ runPc \in {"exited0", "exited1"}
  /\ runPc' = "start"
  /\ options' \in RunOptions
  /\ loaded' = <<>>
  /\ pageFiles' = <<>>
  /\ tasks' = <<>>
  /\ UNCHANGED cacheFile
  /\ UNCHANGED <<detVars, ocrVars, ctxVars, kernelVars>>

\* The first run: there is no cache file yet.
RunInit ==
  /\ runPc = "start"
  /\ options \in RunOptions
  /\ cacheFile = [present |-> FALSE, pages |-> <<>>]
  /\ loaded = <<>>
  /\ pageFiles = <<>>
  /\ tasks = <<>>
  /\ DetIdle
  /\ OcrIdle
  /\ CtxIdle
  /\ KernelIdle

RunNext ==
  \/ RunLoad
  \/ RunStart
  \/ \E k \in 1..Len(tasks) : TaskStart(k)
  \/ \E k \in 1..Len(tasks) : TaskRead(k)
  \/ \E k \in 1..Len(tasks) : TaskDetect(k)
  \/ \E k \in 1..Len(tasks) : \E n \in 1..Len(tasks[k].predictions) : TaskOcrIssued(k, n)
  \/ \E k \in 1..Len(tasks) : \E n \in 1..Len(tasks[k].predictions) : TaskOcrReturns(k, n)
  \/ \E k \in 1..Len(tasks) : TaskTranscribe(k)
  \/ \E k \in 1..Len(tasks) : TaskSaved(k)
  \/ \E k \in 1..Len(tasks) : TaskAnswered(k)
  \/ \E k \in 1..Len(tasks) : TaskDelayed(k)
  \/ \E k \in 1..Len(tasks) : TaskWritten(k)
  \/ RunExit
  \/ RunSave
  \/ RunAgain

RunSpec == RunInit /\ [][RunNext]_vars

----------------------------------------------------------------------------
(* The geometry kernel called on two boxes of its own *)

\* The largest corner coordinate and the largest side of the boxes tried.
MaxCorner == 2
MaxSide == 2

\* Boxes on the integer grid; a side of 0 is a degenerate box.
KernelBoxes ==
  [x : 0..MaxCorner, y : 0..MaxCorner, width : 0..MaxSide, height : 0..MaxSide]

KernelIdleOthers == DetIdle /\ OcrIdle /\ CtxIdle /\ RunIdle

\* calculateIoU(box1, box2) and isInside(box1, box2) return.
KernelReturn ==
  /\ kernelPc = "called"
  /\ kernelIoU' = calculateIoU(kernelBox1, kernelBox2)
  /\ kernelInside' = isInside(kernelBox1, kernelBox2)
  /\ kernelPc' = "done"
  /\ UNCHANGED <<kernelBox1, kernelBox2>>
  /\ UNCHANGED <<detVars, ocrVars, ctxVars, runVars>>

KernelInit ==
  /\ kernelPc = "called"
  /\ kernelBox1 \in KernelBoxes
  /\ kernelBox2 \in KernelBoxes
  /\ kernelIoU = <<>>
  /\ kernelInside = FALSE
  /\ KernelIdleOthers

KernelNext == KernelReturn

KernelSpec == KernelInit /\ [][KernelNext]_vars

----------------------------------------------------------------------------
(* A run of any one stage of processPage on inputs of its own *)

Init == DetInit \/ OcrInit \/ CtxInit

Next == DetNext \/ OcrNext \/ CtxNext

Spec == Init /\ [][Next]_vars

----------------------------------------------------------------------------
(* Properties of the detection stage *)

\* "inner lies entirely within outer", on the boxes' extents.
LiesWithin(inner, outer) ==
  /\ outer.x <= inner.x /\ inner.x + inner.width <= outer.x + outer.width
  /\ outer.y <= inner.y /\ inner.y + inner.height <= outer.y + outer.height

\* The indices of s no other element of which lies within them.
Childless(s) ==
  {i \in 1..Len(s) : \A j \in 1..Len(s) : j # i => ~LiesWithin(s[j], s[i])}

\* C7: the container filter keeps a detection iff no other detection of its
\* input lies entirely within it; of two boxes one of which strictly encloses
\* the other exactly the enclosed one is left; boxes none of which contains
\* another all survive.
C7_ContainerFilterKeepsChildless ==
  detPc = "done" =>
    LET in == deduplicatedPredictions
        out == filteredPredictions
    IN  /\ out = SubSeqAt(in, Childless(in), 1)
        /\ \A i, j \in 1..Len(in) :
             ( /\ Len(in) = 2
               /\ LiesWithin(in[j], in[i])
               /\ ~LiesWithin(in[i], in[j]) ) => out = <<in[j]>>
        /\ (\A i, j \in 1..Len(in) : i # j => ~LiesWithin(in[j], in[i]))
             => out = in

\* C7 witness: a box enclosing two children has been removed, once, and both
\* children are left.
C7_Witness ==
  /\ detPc = "done"
  /\ Len(deduplicatedPredictions) = 3
  /\ Len(filteredPredictions) = 2
  /\ \E i \in 1..3 : \A j \in 1..3 :
       j # i => /\ LiesWithin(deduplicatedPredictions[j], deduplicatedPredictions[i])
                /\ ~LiesWithin(deduplicatedPredictions[i], deduplicatedPredictions[j])
                /\ \E k \in 1..2 : filteredPredictions[k] = deduplicatedPredictions[j]

\* C8: no two detections with identical boxes (each inside the other) are in
\* the container filter's input.
C8_NoIdenticalBoxesReachFilter ==
  detPc \in {"filter", "done"} =>
    \A i, j \in 1..Len(deduplicatedPredictions) :
      i # j => ~( /\ LiesWithin(deduplicatedPredictions[i], deduplicatedPredictions[j])
                  /\ LiesWithin(deduplicatedPredictions[j], deduplicatedPredictions[i]) )

\* C25: the container filter never discards a text region entirely: for
\* every detection it removes, a detection lying within the removed box is in
\* its output, whatever the pipeline feeds it, spatial deduplication enabled
\* or not.
C25_RemovedContainerLeavesAChild ==
  detPc = "done" =>
    \A i \in 1..Len(deduplicatedPredictions) :
      i \notin Childless(deduplicatedPredictions) =>
        \E j \in 1..Len(filteredPredictions) :
          LiesWithin(filteredPredictions[j], deduplicatedPredictions[i])

\* The kept detections similar to a candidate.
SimilarKept(unique, pred) ==
  {k \in 1..Len(unique) : boxesAreSimilar(pred, unique[k], SPATIAL_TOLERANCE)}

\* One step of the pass as the claim words it: no similar kept detection,
\* append; a similar one (the first found), replace it iff the candidate's
\* confidence is strictly higher, otherwise discard the candidate.
C9_PassStep ==
  (detPc = "dedup" /\ sdIdx < Len(centeredPredictions)) =>
    LET pred == centeredPredictions[sdIdx + 1]
        sim == SimilarKept(sdUnique, pred)
        first == CHOOSE k \in sim : \A j \in sim : k <= j
    IN  /\ sdIdx' = sdIdx + 1
        /\ sim = {} => sdUnique' = Append(sdUnique, pred)
        /\ (sim # {} /\ pred.confidence > sdUnique[first].confidence)
             => sdUnique' = [sdUnique EXCEPT ![first] = pred]
        /\ (sim # {} /\ pred.confidence <= sdUnique[first].confidence)
             => sdUnique' = sdUnique

\* Two detections of identical geometry and confidences 0.9 and 0.4, in either
\* order: only the 0.9 one is left.
C9_HighConfidenceOfTwoRemains ==
  ( /\ detPc \in {"filter", "done"}
    /\ useSpatialDedup
    /\ Len(centeredPredictions) = 2
    /\ BoxOf(centeredPredictions[1]) = BoxOf(centeredPredictions[2])
    /\ {centeredPredictions[1].confidence, centeredPredictions[2].confidence} = {4, 9} )
  => \E k \in 1..2 :
       /\ centeredPredictions[k].confidence = 9
       /\ deduplicatedPredictions = <<centeredPredictions[k]>>

\* C9: spatial deduplication, when enabled, is a single pass in input order
\* that appends a candidate with no similar kept detection, replaces the
\* similar kept detection iff the candidate's confidence is strictly higher
\* and discards the candidate otherwise (a tie keeps the earlier one); of two
\* detections of identical geometry with confidences 0.9 and 0.4 only the 0.9
\* one remains, in either order.
C9_SpatialDedupSinglePass ==
  [][C9_PassStep]_vars /\ []C9_HighConfidenceOfTwoRemains

\* C9 witness: the second of two identical boxes had the higher confidence and
\* has replaced the first.
C9_Witness ==
  /\ detPc = "filter"
  /\ useSpatialDedup
  /\ Len(centeredPredictions) = 2
  /\ BoxOf(centeredPredictions[1]) = BoxOf(centeredPredictions[2])
  /\ centeredPredictions[1].confidence = 4
  /\ centeredPredictions[2].confidence = 9
  /\ deduplicatedPredictions = <<centeredPredictions[2]>>

----------------------------------------------------------------------------
(* Properties of the transcription post-processing *)

\* Text deduplication is about to handle a candidate.
TdAtCandidate == ocrPc = "dedup" /\ tdIdx < Len(validOCR)
TdCandidate == validOCR[tdIdx + 1]

\* C1: a candidate found to duplicate a kept region replaces it iff its
\* confidence is higher, or the confidences are equal and its area is larger;
\* a candidate of lower confidence never replaces a kept region.
C1_HigherConfidenceWins ==
  [][ TdAtCandidate =>
        LET pred == TdCandidate
            duplicate == FindTextDuplicate(tdUnique, pred)
        IN  duplicate # 0 =>
              LET kept == tdUnique[duplicate]
                  wins == \/ pred.confidence > kept.confidence
                          \/ /\ pred.confidence = kept.confidence
                             /\ Area(pred) > Area(kept)
              IN  tdUnique' = IF wins THEN [tdUnique EXCEPT ![duplicate] = pred]
                              ELSE tdUnique ]_vars

\* Length of the overlap of the intervals [a1, a2] and [b1, b2].
OverlapLen(a1, a2, b1, b2) == Max(0, Min(a2, b2) - Max(a1, b1))

\* IoU above 0.1: ten times the common area exceeds the area of the union.
IoUAboveTenth(a, b) ==
  LET common == OverlapLen(a.x, a.x + a.width, b.x, b.x + b.width)
                  * OverlapLen(a.y, a.y + a.height, b.y, b.y + b.height)
  IN  10 * common > Area(a) + Area(b) - common

\* A text with case and punctuation stripped: its letters, digits and
\* underscores, in upper case.
RECURSIVE Stripped(_)
Stripped(t) ==
  IF t = <<>> THEN <<>>
  ELSE LET c == UpperChar(Head(t))
       IN  IF \E k \in 1..26 : c = UpperCase[k] THEN <<c>> \o Stripped(Tail(t))
           ELSE IF c \in Digits \cup {"_"} THEN <<c>> \o Stripped(Tail(t))
           ELSE Stripped(Tail(t))

\* part occurs in whole as a run of consecutive characters (the empty text
\* occurs in every text).
Substring(part, whole) ==
  \E from \in 1..(Len(whole) + 1) :
    /\ from + Len(part) - 1 <= Len(whole)
    /\ \A k \in 1..Len(part) : whole[from + k - 1] = part[k]

\* The duplicate rule as the claim states it ...
DuplicateAsClaimed(a, b) ==
  /\ IoUAboveTenth(a, b)
  /\ \/ Stripped(a.ocr_text) = Stripped(b.ocr_text)
     \/ Substring(Stripped(a.ocr_text), Stripped(b.ocr_text))
     \/ Substring(Stripped(b.ocr_text), Stripped(a.ocr_text))

\* ... and as amended: a text that strips to nothing matches only another
\* text that strips to nothing.
DuplicateAsAmended(a, b) ==
  /\ IoUAboveTenth(a, b)
  /\ \/ Stripped(a.ocr_text) = Stripped(b.ocr_text)
     \/ /\ Stripped(a.ocr_text) # <<>>
        /\ Stripped(b.ocr_text) # <<>>
        /\ \/ Substring(Stripped(a.ocr_text), Stripped(b.ocr_text))
           \/ Substring(Stripped(b.ocr_text), Stripped(a.ocr_text))

\* C2 as stated: a candidate is treated as a duplicate (it is not appended to
\* the kept regions) iff some kept region has IoU above 0.1 with it and a
\* stripped text equal to its own or a substring or superstring of it.
C2_DuplicateIffOverlapAndSubstring ==
  [][ TdAtCandidate =>
        ( (tdUnique' # Append(tdUnique, TdCandidate))
          <=> \E k \in 1..Len(tdUnique) : DuplicateAsClaimed(TdCandidate, tdUnique[k]) )
    ]_vars

\* The consequences the claim draws, for a page with two valid regions.
C2_TwoRegionCases ==
  (ocrPc = "done" /\ Len(validOCR) = 2) =>
    LET a == validOCR[1]
        b == validOCR[2]
        sa == Stripped(a.ocr_text)
        sb == Stripped(b.ocr_text)
    IN  /\ (~IoUAboveTenth(a, b) /\ a.ocr_text = b.ocr_text)
             => deduplicatedOCR = validOCR
        /\ (IoUAboveTenth(a, b) /\ ~Substring(sa, sb) /\ ~Substring(sb, sa))
             => deduplicatedOCR = validOCR
        /\ (IoUAboveTenth(a, b) /\ sa # <<>> /\ sb # <<>>
              /\ (Substring(sa, sb) \/ Substring(sb, sa)))
             => Len(deduplicatedOCR) = 1

\* C2, amended: a candidate is treated as a duplicate iff some kept region has
\* IoU above 0.1 with it and their stripped texts are equal, or both non-empty
\* and one a substring of the other.
C2_DuplicateIffOverlapAndSimilarText ==
  /\ [][ TdAtCandidate =>
           ( (tdUnique' # Append(tdUnique, TdCandidate))
             <=> \E k \in 1..Len(tdUnique) :
                   DuplicateAsAmended(TdCandidate, tdUnique[k]) ) ]_vars
  /\ []C2_TwoRegionCases

\* The value is the one of detection k: its index, its box and confidence,
\* and the text the capability returned for it.
ValueOfDetection(value, k) ==
  /\ value.index = k - 1
  /\ BoxOf(value) = BoxOf(ocrRegions[k])
  /\ value.confidence = ocrRegions[k].confidence
  /\ value.ocr_text = runOCRGemini(transcripts[k])

\* C29: the transcription calls of a page are concurrent (a call that has
\* not gone out can go out whatever calls are still in flight), and in
\* whatever order they come back each returned text is attached to the
\* detection it was requested for, with that detection's index, and the
\* resulting list keeps the detections' input order.
C29_TextsStayWithTheirDetections ==
  /\ ocrPc = "transcribe" =>
       /\ \A k \in 1..Len(ocrRegions) : k \notin Issued => ENABLED OcrCallIssued(k)
       /\ ocrCalls \subseteq transcriptionCalls(PageImage, ocrRegions)
       /\ Returned \subseteq Issued
       /\ \A k \in Returned : ValueOfDetection(promiseValues[k], k)
  /\ ocrPc = "filter" =>
       /\ ocrCalls = transcriptionCalls(PageImage, ocrRegions)
       /\ Len(withOCR) = Len(ocrRegions)
       /\ \A k \in 1..Len(withOCR) : ValueOfDetection(withOCR[k], k)

\* Three calls with three different outcomes have come back, the last one
\* first, and the list has been put together.
C29_Witness ==
  /\ ocrPc = "filter"
  /\ completionOrder = <<3, 1, 2>>
  /\ Len(withOCR) = 3
  /\ \A i, j \in 1..3 : i # j => withOCR[i].ocr_text # withOCR[j].ocr_text

\* C26: after text deduplication no two surviving regions are duplicates of
\* each other: no two regions of the output have boxes with IoU above 0.1
\* and stripped texts that are equal or one a substring of the other.
C26_NoDuplicatesSurvive ==
  ocrPc = "done" =>
    \A i, j \in 1..Len(deduplicatedOCR) :
      i # j => ~DuplicateAsClaimed(deduplicatedOCR[i], deduplicatedOCR[j])

\* C2 witness: of three regions, an all-punctuation one overlapping a kept
\* region has been kept beside it, and a substring one has been collapsed.
C2_Witness ==
  /\ ocrPc = "done"
  /\ Len(validOCR) = 3
  /\ Len(deduplicatedOCR) = 2
  /\ \E i, j \in 1..2 :
       /\ Stripped(deduplicatedOCR[i].ocr_text) = <<>>
       /\ Stripped(deduplicatedOCR[j].ocr_text) # <<>>
       /\ IoUAboveTenth(deduplicatedOCR[i], deduplicatedOCR[j])
  /\ \E i, j \in 1..3 :
       /\ i # j
       /\ Stripped(validOCR[i].ocr_text) # Stripped(validOCR[j].ocr_text)
       /\ DuplicateAsAmended(validOCR[i], validOCR[j])

\* A text without its leading and trailing blanks.
RECURSIVE Trimmed(_)
Trimmed(t) ==
  IF t = <<>> THEN <<>>
  ELSE IF Head(t) = " " THEN Trimmed(Tail(t))
  ELSE IF t[Len(t)] = " " THEN Trimmed(SubSeq(t, 1, Len(t) - 1))
  ELSE t

\* The texts the validity filter is to drop.
TooShort(t) ==
  \/ Len(Trimmed(t)) = 0
  \/ Len(Trimmed(t)) = 1 /\ Trimmed(t) # <<"I">> /\ Trimmed(t) # <<"A">>

LongEnough(t) ==
  Len(Trimmed(t)) >= 2 \/ Trimmed(t) = <<"I">> \/ Trimmed(t) = <<"A">>

\* C10: the validity filter drops exactly the regions whose trimmed text is
\* empty or a single character other than "I" or "A"; every region text
\* deduplication reads, keeps or returns has a trimmed text of length at least
\* 2, or "I", or "A".
C10_ValidityFilterDropsShortText ==
  ocrPc \in {"dedup", "done"} =>
    /\ validOCR = SubSeqAt(withOCR,
                           {k \in 1..Len(withOCR) : ~TooShort(withOCR[k].ocr_text)}, 1)
    /\ \A k \in 1..Len(validOCR) : LongEnough(validOCR[k].ocr_text)
    /\ \A k \in 1..Len(tdUnique) : LongEnough(tdUnique[k].ocr_text)
    /\ \A k \in 1..Len(deduplicatedOCR) : LongEnough(deduplicatedOCR[k].ocr_text)

\* C10 witness: of three regions with the texts "x", "I" and "" only the "I"
\* one has passed the filter.
C10_Witness ==
  /\ ocrPc = "dedup"
  /\ Len(withOCR) = 3
  /\ {withOCR[k].ocr_text : k \in 1..3} = {<<"x">>, <<"I">>, <<>>}
  /\ Len(validOCR) = 1
  /\ validOCR[1].ocr_text = <<"I">>


\* The regions whose transcription call was rejected, and the others.
FailedTranscriptions == {k \in 1..Len(transcripts) : ~transcripts[k].ok}
AnsweredTranscriptions == (1..Len(transcripts)) \ FailedTranscriptions

\* A transcribed region without its position in the list of detections.
WithoutIndex(r) ==
  [box |-> BoxOf(r), confidence |-> r.confidence, ocr_text |-> r.ocr_text]

\* What runOCR returns for the page's answered regions alone.
ResultWithoutFailed ==
  deduplicateOCRPredictionsByText(
    filterValid(transcribeAll(SubSeqAt(ocrRegions, AnsweredTranscriptions, 1),
                              SubSeqAt(transcripts, AnsweredTranscriptions, 1))))

\* C11: a rejected transcription call does not propagate: its region gets the
\* empty text and is removed by the validity filter, every region has had
\* exactly one call, and the other regions come out as they do on a page
\* without the failed regions.
C11_FailedTranscriptionIsFilteredOut ==
  ocrPc = "done" =>
    /\ \A k \in FailedTranscriptions :
         /\ withOCR[k].ocr_text = <<>>
         /\ \A j \in 1..Len(validOCR) : validOCR[j].index # k - 1
         /\ \A j \in 1..Len(deduplicatedOCR) : deduplicatedOCR[j].index # k - 1
    /\ Cardinality(ocrCalls) = Len(ocrRegions)
    /\ Issued = 1..Len(ocrRegions)
    /\ LET expected == ResultWithoutFailed
       IN  [j \in 1..Len(deduplicatedOCR) |-> WithoutIndex(deduplicatedOCR[j])]
             = [j \in 1..Len(expected) |-> WithoutIndex(expected[j])]

\* Three regions, the call for the second rejected, the other two returned.
C11_Witness ==
  /\ ocrPc = "done"
  /\ Len(ocrRegions) = 3
  /\ FailedTranscriptions = {2}
  /\ Len(deduplicatedOCR) = 2

\* The part of a box that lies within the image has no area.
ZeroAreaInImage(box) ==
  \/ OverlapLen(box.x, box.x + box.width, 0, PageImage.width) = 0
  \/ OverlapLen(box.y, box.y + box.height, 0, PageImage.height) = 0

WithinImage(box) ==
  /\ box.x >= 0 /\ box.x + box.width <= PageImage.width
  /\ box.y >= 0 /\ box.y + box.height <= PageImage.height

\* C12, as claimed: no transcription call is made for a region whose crop,
\* clamped to the image, has zero area.
C12_ZeroAreaCropGetsNoCall ==
  \A call \in ocrCalls :
    ~ZeroAreaInImage(BoxOf(ocrRegions[call.index + 1]))

\* C12, amended: clamping forces every crop to lie within the image with a
\* width and a height of at least one pixel, so that no crop has zero area
\* and a call is made for every region; a box within the image that has an
\* area is cropped as it is.
C12_EveryCropIsAtLeastOnePixel ==
  /\ ocrPc # "transcribe" => Issued = 1..Len(ocrRegions)
  /\ Cardinality(ocrCalls) = Cardinality(Issued)
  /\ \A call \in ocrCalls :
         LET crop == call.crop
             box == BoxOf(ocrRegions[call.index + 1])
         IN  /\ call.index + 1 \in 1..Len(ocrRegions)
             /\ crop.width >= 1 /\ crop.height >= 1
             /\ WithinImage(crop)
             /\ (WithinImage(box) /\ ~ZeroAreaInImage(box)) => crop = box

\* A box without width was cropped to one pixel, transcribed and returned.
C12_Witness ==
  /\ ocrPc = "done"
  /\ \E k \in 1..Len(ocrRegions) :
       /\ ocrRegions[k].width = 0
       /\ \E call \in ocrCalls : call.index = k - 1 /\ call.crop.width = 1
       /\ \E j \in 1..Len(deduplicatedOCR) : deduplicatedOCR[j].index = k - 1

----------------------------------------------------------------------------
(* Properties of the context classification *)

\* The Bubbles emitted for the k-th classifier call of the page (the call for
\* region k, whose id carries k).
BubblesOfCall(k) ==
  {j \in 1..Len(bubbles) : bubbles[j].id = bubbleId(pageName, k - 1)}

\* The skipped entries that record the text of the k-th call's region.
SkippedOfCall(k) ==
  {j \in 1..Len(skipped) : skipped[j].text = calls[k].text}

\* The k-th call answered as the prompt asks, and what its object says.
AnsweredFenced(k) == calls[k].answer \in FencedAnswers
Said(k) == calls[k].answer.text[4].value

\* The k-th call failed: rejected, no text, or text with no JSON in it.
CallFailed(k) ==
  LET answer == calls[k].answer
  IN  \/ answer.kind = "rejected"
      \/ /\ answer.kind = "text"
         /\ \A t \in 1..Len(answer.text) :
              answer.text[t].tok \in {"prose", "fence", "fence-json"}

\* C3: after any sequence of classifier results, every Bubble of the page's
\* list whose type is NARRATION or CAPTION has speaker "Narrator" and emotion
\* "Neutral", whatever the classifier returned for those fields.
C3_NarrationHasForcedSpeaker ==
  \A j \in 1..Len(bubbles) :
    bubbles[j].type \in {"NARRATION", "CAPTION"}
      => bubbles[j].speaker = "Narrator" /\ bubbles[j].emotion = "Neutral"

\* A finished page with a CAPTION Bubble whose classifier answer named the
\* speaker Leo and the emotion angry.
C3_Witness ==
  /\ ctxPc = "done"
  /\ \E k \in 1..Len(calls) :
       /\ AnsweredFenced(k)
       /\ Said(k) = [type |-> "CAPTION", speaker |-> "Leo", emotion |-> "angry"]
       /\ \E j \in BubblesOfCall(k) : bubbles[j].type = "CAPTION"

\* C4: no Bubble of a page's list has type SFX or BACKGROUND: every region
\* classified SFX or BACKGROUND is recorded in the skipped list with a reason
\* (which names the type) and has no Bubble.  The regions are those whose
\* result has been handled (the first ctxI calls).
C4_SkippedTypesHaveNoBubble ==
  /\ \A j \in 1..Len(bubbles) : bubbles[j].type \notin {"SFX", "BACKGROUND"}
  /\ \A k \in 1..ctxI :
       (AnsweredFenced(k) /\ Said(k).type \in {"SFX", "BACKGROUND"})
         => /\ BubblesOfCall(k) = {}
            /\ \E j \in SkippedOfCall(k) :
                 skipped[j].reason = <<"Type: ", Said(k).type>>

\* A finished page of two regions, the first classified BACKGROUND and
\* skipped, the second emitted as a Bubble.
C4_Witness ==
  /\ ctxPc = "done"
  /\ Len(calls) = 2
  /\ AnsweredFenced(1)
  /\ Said(1).type = "BACKGROUND"
  /\ Len(skipped) = 1
  /\ Len(bubbles) = 1

\* C5: a region whose classifier call fails (rejected, no text, text without
\* JSON) is not dropped: a Bubble of type SPEECH with speaker null and emotion
\* "neutral" carries its text once the result is handled, and a finished page
\* has had one call for each of its regions, each region emitted or skipped.
C5_FailedCallStillEmitsBubble ==
  /\ \A k \in 1..ctxI :
       CallFailed(k)
         => \E j \in BubblesOfCall(k) :
              /\ bubbles[j].ocr_text = calls[k].text
              /\ bubbles[j].type = "SPEECH"
              /\ bubbles[j].speaker = NULL
              /\ bubbles[j].emotion = "neutral"
  /\ (ctxPc = "done" /\ ~skipGemini)
       => /\ Len(calls) = Len(ocrPredictions)
          /\ \A k \in 1..Len(calls) : calls[k].text = ocrPredictions[k].ocr_text
          /\ Len(bubbles) + Len(skipped) = Len(ocrPredictions)

\* A finished page of two regions: the first call was rejected, the second
\* was answered and its region emitted with the speaker Leo.
C5_Witness ==
  /\ ctxPc = "done"
  /\ Len(calls) = 2
  /\ calls[1].answer.kind = "rejected"
  /\ Len(bubbles) = 2
  /\ bubbles[1].speaker = NULL
  /\ bubbles[2].speaker = "Leo"

\* C6, as claimed: every Bubble has one of the five types, and its speaker is
\* non-null exactly when its type is not SFX or BACKGROUND.
C6_DataModelInvariant ==
  \A j \in 1..Len(bubbles) :
    /\ bubbles[j].type \in {"SPEECH", "NARRATION", "CAPTION", "SFX", "BACKGROUND"}
    /\ (bubbles[j].speaker # NULL) <=> (bubbles[j].type \notin {"SFX", "BACKGROUND"})

\* C6, amended: every Bubble has a type other than SFX or BACKGROUND, the
\* type the classifier returned, or SPEECH when it returned none or its call
\* failed; a NARRATION or CAPTION Bubble has the speaker "Narrator"; a Bubble
\* of another type has the speaker the classifier returned, null when it
\* returned none or its call failed.
C6_BubbleTypeAndSpeaker ==
  \A k \in 1..Len(calls) : \A j \in BubblesOfCall(k) :
    /\ bubbles[j].type \notin {"SFX", "BACKGROUND"}
    /\ bubbles[j].type \in {"NARRATION", "CAPTION"} => bubbles[j].speaker = "Narrator"
    /\ CallFailed(k) => bubbles[j].type = "SPEECH" /\ bubbles[j].speaker = NULL
    /\ AnsweredFenced(k) =>
         /\ bubbles[j].type = IF Said(k).type = NULL THEN "SPEECH" ELSE Said(k).type
         /\ bubbles[j].type \notin {"NARRATION", "CAPTION"}
              => bubbles[j].speaker = Said(k).speaker

\* A finished page with a Bubble of a type outside the five, and a SPEECH
\* Bubble without a speaker whose call was answered with an object.
C6_Witness ==
  /\ ctxPc = "done"
  /\ \E j \in 1..Len(bubbles) : bubbles[j].type = "THOUGHT"
  /\ \E k \in 1..Len(calls) :
       /\ AnsweredFenced(k)
       /\ Said(k).type = "SPEECH"
       /\ \E j \in BubblesOfCall(k) : bubbles[j].speaker = NULL

\* C13: Bubble ids are assigned in survival order: the k-th Bubble of the
\* page's list has the id of pageName, "_b" and k in two digits, so that the
\* ids of the list are b01, b02, ... without gaps.
C13_IdsFollowSurvivalOrder ==
  \A j \in 1..Len(bubbles) :
    bubbles[j].id = <<pageName, "_", "b", "0", DigitChar(j)>>

\* The entries of the skipped list that report a failure (analyzeContext,
\* line 131, writes their reason as "Error: " and the message).
FailureReports == {j \in 1..Len(skipped) : skipped[j].reason[1] = "Error: "}

\* C20: every classifier failure is reported in the page's result: after the
\* page is processed, its failure report has one entry for each region whose
\* classification failed.
C20_FailuresAreReported ==
  ctxPc = "done" =>
    Cardinality(FailureReports) = Cardinality({k \in 1..Len(calls) : CallFailed(k)})

----------------------------------------------------------------------------
(* Properties of the run *)

Selected == {pageFiles[k] : k \in 1..Len(pageFiles)}

\* C14: a page whose file name is a key of the loaded cache is skipped: no
\* detection, transcription or classification call is issued for it at any
\* moment of the run, and once the cache is persisted its Bubble list there
\* is the one of the loaded cache.
C14_CachedPageIsSkipped ==
  \A k \in 1..Len(tasks) :
    pageFiles[k] \in DOMAIN loaded =>
      /\ tasks[k].pc \in {"queued", "resolved"}
      /\ tasks[k].detectCalls = 0
      /\ tasks[k].ocrCalls = <<>>
      /\ tasks[k].calls = <<>>
      /\ runPc = "exited0" =>
           /\ pageFiles[k] \in DOMAIN cacheFile.pages
           /\ cacheFile.pages[pageFiles[k]] = loaded[pageFiles[k]]

\* A run has ended that skipped a cached page holding a Bubble, skipped a
\* cached page with an empty Bubble list, and processed a third page.
C14_Witness ==
  /\ runPc = "exited0"
  /\ \E k \in 1..Len(tasks) : tasks[k].fromCache /\ loaded[pageFiles[k]] # <<>>
  /\ \E k \in 1..Len(tasks) : tasks[k].fromCache /\ loaded[pageFiles[k]] = <<>>
  /\ \E k \in 1..Len(tasks) : ~tasks[k].fromCache /\ Len(tasks[k].calls) > 0

\* C15: a run whose selected pages are all in the cache the earlier run
\* wrote persists a cache equal to the loaded one (same pages, same Bubble
\* lists, nothing added), and any run that persists keeps the entries of the
\* pages outside its selection.
C15_RerunPersistsTheSameCache ==
  runPc = "exited0" =>
    /\ (Selected \subseteq DOMAIN loaded) => cacheFile.pages = loaded
    /\ \A name \in (DOMAIN loaded) \ Selected :
         /\ name \in DOMAIN cacheFile.pages
         /\ cacheFile.pages[name] = loaded[name]

\* A second run over all three pages has ended, on a cache that held all of
\* them, one with a Bubble; and (second conjunct's case) the cache also shows
\* what a run over one page leaves of the others.
C15_Witness ==
  /\ runPc = "exited0"
  /\ Len(pageFiles) = Cardinality(PagesDirectory)
  /\ Selected \subseteq DOMAIN loaded
  /\ \E name \in DOMAIN loaded : loaded[name] # <<>>
  /\ cacheFile.pages = loaded

\* The result of task k is in the cache file, under the page's file name.
Persisted(k) ==
  /\ cacheFile.present
  /\ pageFiles[k] \in DOMAIN cacheFile.pages
  /\ cacheFile.pages[pageFiles[k]] = tasks[k].result

\* The first b pages make up whole batches of LimitConcurrency pages.
BatchEnd(b) == b >= LimitConcurrency /\ b % LimitConcurrency = 0

\* C16: the cache is persisted after each batch of pages: when a run has
\* ended on the failure of a later page, the results of every batch that had
\* finished by then are in the cache file.
C16_CachePersistedAfterEachBatch ==
  runPc = "exited1" =>
    \A b \in 1..Len(tasks) :
      (BatchEnd(b) /\ \A j \in 1..b : tasks[j].pc = "resolved") =>
        \A j \in 1..b : Persisted(j)

\* C17: a page-local failure aborts only that page's task: when the run has
\* ended, every selected page whose own task did not fail has run to
\* completion and has its Bubble list in the cache file.
C17_FailureAbortsOnlyItsPage ==
  runPc \in {"exited0", "exited1"} =>
    \A k \in 1..Len(tasks) :
      tasks[k].pc # "rejected" => tasks[k].pc = "resolved" /\ Persisted(k)

\* The order the code sorts the page files in.
LexSorted(paths) == \A a, b \in 1..Len(paths) : a < b => LexLess(paths[a], paths[b])

\* Task k starts in this step.
Starts(k) ==
  /\ k \in DOMAIN tasks /\ k \in DOMAIN tasks'
  /\ tasks[k].pc = "queued" /\ tasks'[k].pc # "queued"

\* C18: at every moment at most 2 page pipelines are in flight; a page starts
\* only when fewer than 2 are in flight, that is, beyond the first two, only
\* once a running one has finished (it resolved, or it rejected and main has
\* not exited yet); and pages start in the lexicographic order of their file
\* names, none overtaking an earlier one.
C18_BoundedPoolInFilenameOrder ==
  /\ [](Cardinality(InFlight) <= 2 /\ LexSorted(pageFiles))
  /\ [][\A k \in 1..Len(tasks) :
          Starts(k) =>
            /\ Cardinality(InFlight) < 2
            /\ \A j \in 1..(k - 1) : tasks[j].pc # "queued"
            /\ \A j \in (k + 1)..Len(tasks) : tasks[j].pc = "queued"
            /\ (k > 2 /\ tasks'[k].pc # "resolved") =>
                 \E j \in 1..(k - 1) : tasks[j].pc \in {"resolved", "rejected"}]_vars

\* Three pages were selected; the third has started after an earlier one
\* finished, and runs beside the other.
C18_Witness ==
  /\ Len(tasks) = 3
  /\ LexSorted(pageFiles)
  /\ Cardinality(InFlight) = 2
  /\ 3 \in InFlight
  /\ tasks[3].startedAfter # {}

\* The speaker a classifier call has returned with a SPEECH result, or NULL.
speechSpeaker(call) ==
  LET context == analyzeContextGemini(call.answer)
  IN  IF context.type = "SPEECH" THEN context.speaker ELSE NULL

InRoster(name, roster) == \E n \in 1..Len(roster) : roster[n] = name

\* C19: once a classifier call has returned SPEECH with a speaker, that name
\* is in the roster of every later classifier call of the run: of the later
\* regions of the same page, and of the pages processed after that page.
C19_RosterCarriesAcrossPages ==
  \A j \in 1..Len(tasks) : \A m \in 1..Len(tasks[j].calls) :
    /\ \A n \in 1..(m - 1) :
         speechSpeaker(tasks[j].calls[n]) # NULL =>
           InRoster(speechSpeaker(tasks[j].calls[n]), tasks[j].calls[m].roster)
    /\ \A i \in tasks[j].startedAfter : \A n \in 1..Len(tasks[i].calls) :
         speechSpeaker(tasks[i].calls[n]) # NULL =>
           InRoster(speechSpeaker(tasks[i].calls[n]), tasks[j].calls[m].roster)

\* The type the classifier call has been given by analyzeContextGemini.
answeredType(call) == analyzeContextGemini(call.answer).type

\* C21: a page with three raw detections, #2 fully inside #1 and #3 apart,
\* transcribed "HELLO" (#2) and "BOOM" (#3), classified not skipped ("HELLO")
\* and SFX ("BOOM"): the container filter yields #2 and #3, both pass the
\* validity filter, and the page's Bubble list is one entry with text "HELLO".
C21_ThreeDetectionsEndToEnd ==
  \A k \in 1..Len(tasks) :
    ( /\ tasks[k].pc = "resolved"
      /\ tasks[k].raw = ThreeDetections
      /\ \A n \in DOMAIN tasks[k].responses :
           tasks[k].responses[n] =
             answersFor(tasks[k].predictions, tasks[k].raw, RunTranscripts)[n]
      /\ ~options.skipGemini
      /\ \A c \in 1..Len(tasks[k].calls) :
           /\ tasks[k].calls[c].text = <<"H", "E", "L", "L", "O">> =>
                ~isSkippedType(answeredType(tasks[k].calls[c]))
           /\ tasks[k].calls[c].text = <<"B", "O", "O", "M">> =>
                answeredType(tasks[k].calls[c]) = "SFX" )
    => /\ tasks[k].predictions = SubSeq(convertCenterToTopLeft(ThreeDetections), 2, 3)
       /\ Len(tasks[k].ocrPredictions) = 2
       /\ Len(tasks[k].calls) = 2
       /\ tasks[k].ocrPredictions[1].ocr_text = <<"H", "E", "L", "L", "O">>
       /\ tasks[k].ocrPredictions[2].ocr_text = <<"B", "O", "O", "M">>
       /\ tasks[k].calls[1].text = <<"H", "E", "L", "L", "O">>
       /\ tasks[k].calls[2].text = <<"B", "O", "O", "M">>
       /\ Len(tasks[k].result) = 1
       /\ tasks[k].result[1].ocr_text = <<"H", "E", "L", "L", "O">>

\* Such a page has been processed to the end.
C21_Witness ==
  \E k \in 1..Len(tasks) :
    /\ tasks[k].pc = "resolved"
    /\ tasks[k].raw = ThreeDetections
    /\ DOMAIN tasks[k].responses = 1..2
    /\ \A n \in 1..2 : tasks[k].responses[n].ok
    /\ Len(tasks[k].calls) = 2
    /\ ~isSkippedType(answeredType(tasks[k].calls[1]))
    /\ answeredType(tasks[k].calls[2]) = "SFX"
    /\ Len(tasks[k].result) = 1

\* The classifier calls of task k that have been issued and have not returned.
ClassifierInFlight(k) == tasks[k].issued - Len(tasks[k].calls)

\* The name the result of a classifier call adds to the roster, or NULL.
nameAdded(call) ==
  LET context == analyzeContextGemini(call.answer)
  IN  IF isSkippedType(context.type) THEN NULL
      ELSE IF narratorSpeaker(context) = "" THEN NULL
      ELSE narratorSpeaker(context)

\* C23: within one page the classifier calls are strictly sequential in
\* region order: at most one call of the page is in flight, call k+1 is
\* issued only after call k has returned (and is the call of region k+1),
\* and the roster passed to call k+1 holds the roster of call k and any
\* name the result of call k added.
C23_ClassifierCallsAreSequential ==
  /\ [](\A k \in 1..Len(tasks) :
          /\ ClassifierInFlight(k) \in {0, 1}
          /\ \A m \in 1..Len(tasks[k].calls) :
               /\ tasks[k].calls[m].text = tasks[k].ocrPredictions[m].ocr_text
               /\ m > 1 =>
                    /\ \A name \in {tasks[k].calls[m - 1].roster[n] :
                                      n \in 1..Len(tasks[k].calls[m - 1].roster)} :
                         InRoster(name, tasks[k].calls[m].roster)
                    /\ nameAdded(tasks[k].calls[m - 1]) # NULL =>
                         InRoster(nameAdded(tasks[k].calls[m - 1]),
                                  tasks[k].calls[m].roster))
  /\ [][\A k \in 1..Len(tasks) :
          (k \in DOMAIN tasks' /\ tasks'[k].issued > tasks[k].issued) =>
            /\ tasks'[k].issued = tasks[k].issued + 1
            /\ Len(tasks'[k].calls) = tasks[k].issued]_vars

\* The second call of a page is in flight, after the first returned speech of
\* Leo, with Leo in the roster it was given (the roster at issue).
C23_Witness ==
  \E k \in 1..Len(tasks) :
    /\ tasks[k].pc = "classify"
    /\ tasks[k].issued = 2
    /\ Len(tasks[k].calls) = 1
    /\ nameAdded(tasks[k].calls[1]) = "Leo"
    /\ tasks[k].uniqueCharacters = <<"Leo">>

\* The stages of a page task, in their order.
StageRank(pc) ==
  CASE pc = "queued" -> 0
    [] pc = "read" -> 1
    [] pc = "detect" -> 2
    [] pc = "ocr" -> 3
    [] pc = "save" -> 4
    [] pc = "classify" -> 5
    [] pc = "delay" -> 5
    [] pc = "write" -> 6
    [] pc = "resolved" -> 7
    [] pc = "rejected" -> 7

\* What task k has called so far fits the stage it is in.
CallsFitStage(k) ==
  LET task == tasks[k]
  IN  /\ task.detectCalls <= 1
      /\ task.detectCalls = 1 => (StageRank(task.pc) >= 2 /\ ~task.fromCache)
      /\ (StageRank(task.pc) >= 2 /\ ~task.fromCache /\ task.pc # "rejected")
           => task.detectCalls = 1
      /\ TaskIssued(k) \subseteq 1..Len(task.predictions)
      /\ Cardinality(TaskIssued(k)) = Len(task.ocrCalls)
      /\ TaskReturned(k) \subseteq TaskIssued(k)
      /\ task.ocrCalls # <<>> => StageRank(task.pc) >= 3
      /\ StageRank(task.pc) >= 4 => TaskReturned(k) = 1..Len(task.predictions)
      /\ task.issued <= Len(task.ocrPredictions)
      /\ Len(task.calls) <= task.issued
      /\ task.issued > 0 => StageRank(task.pc) >= 5
      /\ task.pc = "resolved" => Len(task.calls) = task.issued

\* C24: a page not found in the loaded cache goes through detection,
\* transcription, classification and is then cached, in that order: the
\* transcription calls are issued when the detection call has returned, the
\* classifier calls when all transcription calls have returned, and no call
\* is issued twice, whether it failed or not.
C24_StagesInOrderWithoutRetry ==
  /\ [](\A k \in 1..Len(tasks) : CallsFitStage(k))
  /\ [][\A k \in 1..Len(tasks) :
          k \in DOMAIN tasks' =>
            /\ StageRank(tasks'[k].pc) >= StageRank(tasks[k].pc)
            /\ tasks'[k].detectCalls > tasks[k].detectCalls => tasks[k].pc = "read"
            /\ tasks'[k].ocrCalls # tasks[k].ocrCalls =>
                 /\ tasks[k].pc = "ocr" /\ tasks[k].detectCalls = 1
                 /\ Len(tasks'[k].ocrCalls) = Len(tasks[k].ocrCalls) + 1
            /\ tasks'[k].issued > tasks[k].issued =>
                 /\ tasks[k].pc \in {"save", "delay"}
                 /\ TaskReturned(k) = 1..Len(tasks[k].predictions)
            /\ tasks[k].pc \in {"resolved", "rejected"} => tasks'[k] = tasks[k]]_vars

\* A page has gone through all stages with a failed transcription call and a
\* rejected classifier call, each made once.
C24_Witness ==
  \E k \in 1..Len(tasks) :
    /\ tasks[k].pc = "resolved"
    /\ tasks[k].detectCalls = 1
    /\ Len(tasks[k].ocrCalls) = 2
    /\ Len(tasks[k].ocrPredictions) = 1
    /\ tasks[k].issued = 1
    /\ Len(tasks[k].calls) = 1
    /\ tasks[k].calls[1].answer.kind = "rejected"
    /\ Len(tasks[k].result) = 1

\* C27: a page is in the persisted cache, and so skipped by later runs, only
\* after classification has run on its transcribed regions: every region
\* the page's transcription left has had its classifier call.  A run with
\* --skip-gemini, which makes no classifier call, then leaves no page with
\* transcribed regions marked as cached.
C27_CachedOnlyAfterClassification ==
  runPc = "exited0" =>
    \A k \in 1..Len(tasks) :
      (~tasks[k].fromCache /\ isCached(cacheFile.pages, pageFiles[k])) =>
        Len(tasks[k].calls) = Len(tasks[k].ocrPredictions)

\* The roster a page's own results give after its first m classifier calls,
\* starting from the empty roster.
RECURSIVE ownRoster(_, _)
ownRoster(pageCalls, m) ==
  IF m = 0 THEN <<>>
  ELSE LET before == ownRoster(pageCalls, m - 1)
           name == nameAdded(pageCalls[m])
       IN  IF name = NULL \/ InRoster(name, before) THEN before
           ELSE Append(before, name)

\* C28: the roster given to a page's classifier calls starts empty on each
\* page and is determined by the page's own earlier results alone: whatever
\* the other pages do and however they interleave, call m gets the roster
\* the answers to the page's calls 1..m-1 give.
C28_RosterIsPerPage ==
  \A k \in 1..Len(tasks) : \A m \in 1..Len(tasks[k].calls) :
    tasks[k].calls[m].roster = ownRoster(tasks[k].calls, m - 1)

\* Two pages are being classified side by side: one has Leo in its roster,
\* the other has had a call return, with an empty roster before and after.
C28_Witness ==
  \E i, j \in 1..Len(tasks) :
    /\ i # j
    /\ tasks[i].pc = "classify" /\ tasks[j].pc = "classify"
    /\ tasks[i].uniqueCharacters = <<"Leo">>
    /\ Len(tasks[j].calls) = 1
    /\ tasks[j].calls[1].roster = <<>>
    /\ tasks[j].uniqueCharacters = <<>>

\* The Bubbles of the run: of page task k, the n-th it has emitted.
RunBubbles ==
  UNION {{<<k, n>> : n \in 1..Len(tasks[k].bubbles)} : k \in 1..Len(tasks)}

\* C30: the ids of the Bubbles a run produces are pairwise distinct, within
\* one page's list and across pages, and so are the ids in the cache the run
\* writes.
C30_BubbleIdsAreDistinct ==
  /\ \A a, b \in RunBubbles :
       a # b => tasks[a[1]].bubbles[a[2]].id # tasks[b[1]].bubbles[b[2]].id
  /\ runPc = "exited0" =>
       \A p, q \in DOMAIN cacheFile.pages :
         \A i \in 1..Len(cacheFile.pages[p]) : \A j \in 1..Len(cacheFile.pages[q]) :
           (p # q \/ i # j) => cacheFile.pages[p][i].id # cacheFile.pages[q][j].id

\* A run has written a cache in which two pages have two Bubbles each.
C30_Witness ==
  /\ runPc = "exited0"
  /\ \E p, q \in DOMAIN cacheFile.pages :
       /\ p # q
       /\ Len(cacheFile.pages[p]) = 2
       /\ Len(cacheFile.pages[q]) = 2
  /\ \E k \in 1..Len(tasks) : Len(tasks[k].bubbles) = 2

----------------------------------------------------------------------------
(* Properties of the geometry kernel *)

Positive(box) == box.width > 0 /\ box.height > 0

\* C22: for boxes a, b of positive width and height with a entirely within b,
\* iou(a, b) = area(a) / area(b).
C22_IoUOfContainedBoxIsAreaRatio ==
  ( /\ kernelPc = "done"
    /\ Positive(kernelBox1) /\ Positive(kernelBox2)
    /\ kernelInside )
  => kernelIoU.num * Area(kernelBox2) = Area(kernelBox1) * kernelIoU.den

\* A box has been found inside a larger one, away from its left and top
\* sides, and the ratio has been computed.
C22_Witness ==
  /\ kernelPc = "done"
  /\ kernelInside
  /\ Positive(kernelBox1)
  /\ kernelBox1.x > kernelBox2.x /\ kernelBox1.y > kernelBox2.y
  /\ Area(kernelBox1) < Area(kernelBox2)
  /\ kernelIoU.num * Area(kernelBox2) = Area(kernelBox1) * kernelIoU.den

====
